---- MODULE Spec2Model ----
(***************************************************************************)
(* A model of the chess rules engine (bitboard.rs, state.rs, game.rs), of  *)
(* the loops that drive it (bot.rs history replay, bench.rs self-play), of *)
(* FEN reading and writing (game.rs from_fen, to_fen) and of the search    *)
(* and its threaded wrapper (ai.rs).                                       *)
(*                                                                         *)
(* A Bb (64-bit mask) is modelled as the set of its member squares; a      *)
(* square is its index file*8 + rank.  Every mask operation is modelled by *)
(* what it does to the set of bits, including clipping at the byte (file)  *)
(* and word boundaries.                                                    *)
(***************************************************************************)
EXTENDS Integers, Sequences, FiniteSets, TLC

\* ------------------------------------------------------------------ bounds

\* number of plies that may be played freely after a replayed history
MaxFree == 1

\* the search depths tried on a position
MaxDepth == 3

\* number of times pick_move_async is called on one ParallelAi
MaxSubmit == 3

\* number of moves an engine plays against itself from a starting position
MaxPlies == 3

\* number of moves made on the owner's position while a ParallelAi is in use
MaxMoves == 2

\* ------------------------------------------------------------- state.rs

White == 0
Black == 1
Colors == {White, Black}

Pawn == 0
Knight == 1
Bishop == 2
Rook == 3
Queen == 4
King == 5
PieceTypes == 0..5

Squares == 0..63

\* Square::at
SquareAt(file, rank) == file * 8 + rank
\* Square::file
FileOf(squ) == squ \div 8
\* Square::rank
RankOf(squ) == squ % 8
\* Square::shift
SquareShift(squ, dfile, drank) == SquareAt(FileOf(squ) + dfile, RankOf(squ) + drank)

\* Color::opponent
Opponent(color) == IF color = White THEN Black ELSE White
\* Color::rel_rank
RelRank(color, rank) == IF color = White THEN rank ELSE 7 - rank
\* Color::up
Up(color) == IF color = White THEN 1 ELSE -1
\* Color::down
Down(color) == -Up(color)

\* Piece::new followed by Piece::ordinal: the index of the piece's bitboard
Piece(color, ptype) == color * 6 + ptype
PieceOrdinals == 0..11

\* SpecialMove
SpecialMoves ==
    {"None", "EnPassant", "PromoteN", "PromoteB", "PromoteR", "PromoteQ", "CastleQ", "CastleK"}

\* SpecialMove::get_promotion, as an Option (a set of at most one piece type)
GetPromotion(special) ==
    CASE special = "PromoteN" -> {Knight}
      [] special = "PromoteB" -> {Bishop}
      [] special = "PromoteR" -> {Rook}
      [] special = "PromoteQ" -> {Queen}
      [] OTHER -> {}

\* struct Move
Move(ptype, from, to, special) ==
    [ptype |-> ptype, from |-> from, to |-> to, special |-> special]

\* ----------------------------------------------------------- bitboard.rs

\* the squares in ascending index order, the order BbIter yields bits
SquareSeq == [i \in 1..64 |-> i - 1]

\* Bb::iter / BbIter::next: members from the lowest index to the highest
Iter(bb) == SelectSeq(SquareSeq, LAMBDA s : s \in bb)

\* Bb::rank
BbRank(rank) == {s \in Squares : RankOf(s) = rank}
\* Bb::shift_up: each byte is shifted left and the bits leaving it are masked off
ShiftUp(bb, ranks) == {s + ranks : s \in {t \in bb : RankOf(t) + ranks <= 7}}
\* Bb::shift_down
ShiftDown(bb, ranks) == {s - ranks : s \in {t \in bb : RankOf(t) - ranks >= 0}}
\* Bb::shift_ver
ShiftVer(bb, ranks) == IF ranks >= 0 THEN ShiftUp(bb, ranks) ELSE ShiftDown(bb, -ranks)
\* Bb::shift_left: the word is shifted right by whole bytes
ShiftLeft(bb, files) == {s - 8 * files : s \in {t \in bb : t - 8 * files >= 0}}
\* Bb::shift_right
ShiftRight(bb, files) == {s + 8 * files : s \in {t \in bb : t + 8 * files <= 63}}
\* Bb::shift_hor
ShiftHor(bb, files) == IF files >= 0 THEN ShiftRight(bb, files) ELSE ShiftLeft(bb, -files)
\* Bb::file: Bb(0x00000000000000ff).shift_right(file)
BbFile(file) == ShiftRight(0..7, file)

\* Bb(0x0a1100110a): the knight moves from c3
KnightFromC3 == {1, 3, 8, 12, 24, 28, 33, 35}
\* Bb(0x070507): the king moves from b2
KingFromB2 == {0, 1, 2, 8, 10, 16, 17, 18}
\* Bb(0x8040201008040201): the main diagonal
MainDiagonal == {9 * i : i \in 0..7}
\* Bb(0x0102040810204080): the main antidiagonal
MainAntidiagonal == {7 * i + 7 : i \in 0..7}

\* one pattern for every square, the one of c3
KNIGHT_PATTERNS_Unshifted == [idx \in Squares |-> KnightFromC3]

KNIGHT_PATTERNS ==
    [idx \in Squares |-> ShiftVer(ShiftHor(KnightFromC3, FileOf(idx) - 2), RankOf(idx) - 2)]
KING_PATTERNS ==
    [idx \in Squares |-> ShiftVer(ShiftHor(KingFromB2, FileOf(idx) - 1), RankOf(idx) - 1)]
DIAGONALS == [idx \in 0..14 |-> ShiftHor(MainDiagonal, idx - 7)]
ANTIDIAGONALS == [idx \in 0..14 |-> ShiftHor(MainAntidiagonal, idx - 7)]

\* last_bit(x).unwrap_or(dflt)
LastBitOr(bb, dflt) == IF bb = {} THEN dflt ELSE CHOOSE x \in bb : \A y \in bb : y <= x
\* first_bit(x).unwrap_or(dflt)
FirstBitOr(bb, dflt) == IF bb = {} THEN dflt ELSE CHOOSE x \in bb : \A y \in bb : x <= y

\* a ray that takes the piece on its origin for an obstacle
CastRay_FromBlocks(from, pattern, pieces) ==
    LET obstacles == pattern \cap pieces
        obstacle1 == LastBitOr({s \in obstacles : s <= from}, 0)
        obstacle2 == FirstBitOr({s \in obstacles : s >= from}, 63)
    IN  {s \in pattern : obstacle1 <= s /\ s <= obstacle2}

\* cast_ray
CastRay(from, pattern, pieces) ==
    LET obstacles == (pattern \cap pieces) \ {from}
        obstacle1 == LastBitOr({s \in obstacles : s <= from}, 0)
        obstacle2 == FirstBitOr({s \in obstacles : s >= from}, 63)
    IN  {s \in pattern : obstacle1 <= s /\ s <= obstacle2}

\* cast_diagonals
CastDiagonals(from, pieces) ==
    CastRay(from, DIAGONALS[7 + FileOf(from) - RankOf(from)], pieces)
        \cup CastRay(from, ANTIDIAGONALS[FileOf(from) + RankOf(from)], pieces)
\* cast_cardinals
CastCardinals(from, pieces) ==
    CastRay(from, BbRank(RankOf(from)), pieces) \cup CastRay(from, BbFile(FileOf(from)), pieces)

\* ------------------------------------------------------ state.rs: Board

\* Board::find_piece
FindPiece(board, piece) == board[piece]
\* Board::find_color
FindColor(board, color) == UNION {board[Piece(color, ptype)] : ptype \in PieceTypes}
\* Board::all_pieces
AllPieces(board) == FindColor(board, White) \cup FindColor(board, Black)
\* Board::add
BoardAdd(board, squ, piece) == [board EXCEPT ![piece] = @ \cup {squ}]
\* Board::remove
BoardRemove(board, squ, piece) == [board EXCEPT ![piece] = @ \ {squ}]

\* ------------------------------------------------------ game.rs: Position

\* struct Position; en_passant_target is an Option, modelled as a set of at most
\* one square
MakePosition(board, unmoved, en_passant_target, ply_number, half_move_clock) ==
    [board |-> board, unmoved |-> unmoved, en_passant_target |-> en_passant_target,
     ply_number |-> ply_number, half_move_clock |-> half_move_clock]

\* Position::side_to_move
SideToMove(pos) == (pos.ply_number - 1) % 2

\* integer division truncating toward zero, as Rust's / on i8
TruncDiv(a, b) == IF a >= 0 THEN a \div b ELSE -((-a) \div b)

\* u8::abs_diff
AbsDiff(a, b) == IF a >= b THEN a - b ELSE b - a

\* a capture that leaves the captured piece on the board
RemoveCaptured_KeepsPiece(board, opp, to) == board

\* apply_move, the capture loop of the default arm: every opposing piece type
\* found on the target square is removed
RemoveCaptured(board, opp, to) ==
    [p \in PieceOrdinals |->
        IF p \in {Piece(opp, ptype) : ptype \in PieceTypes} THEN board[p] \ {to} ELSE board[p]]

\* castling rights tracked by occupancy: a piece arriving on a king's or rook's
\* home square makes the square unmoved again
ClearUnmoved_ByOccupancy(unmoved, from, to) ==
    (unmoved \ {from})
        \cup ({to} \cap {SquareAt(file, rank) : file \in {0, 4, 7}, rank \in {0, 7}})

\* apply_move: self.unmoved &= !(Bb::one(mov.from) | Bb::one(mov.to))
ClearUnmoved(unmoved, from, to) == unmoved \ {from, to}

\* an en-passant target that outlives the moves that are not double pushes
EnPassantTarget_Kept(mov, unmoved, previous) ==
    IF /\ mov.ptype = Pawn
       /\ mov.from \in unmoved
       /\ FileOf(mov.from) = FileOf(mov.to)
       /\ AbsDiff(RankOf(mov.to), RankOf(mov.from)) = 2
    THEN {SquareAt(FileOf(mov.from), (RankOf(mov.from) + RankOf(mov.to)) \div 2)}
    ELSE previous

\* apply_move: the value assigned to self.en_passant_target, whatever the
\* previous target was
EnPassantTarget(mov, unmoved, previous) ==
    IF /\ mov.ptype = Pawn
       /\ mov.from \in unmoved
       /\ FileOf(mov.from) = FileOf(mov.to)
       /\ AbsDiff(RankOf(mov.to), RankOf(mov.from)) = 2
    THEN {SquareAt(FileOf(mov.from), (RankOf(mov.from) + RankOf(mov.to)) \div 2)}
    ELSE {}

\* a castling that leaves the rook in its corner
CastleRook_LeftInCorner(board, corner_squ, middle_squ, rook_piece) == board

\* apply_move, castling: the rook leaves its corner for the square the king
\* crosses
CastleRook(board, corner_squ, middle_squ, rook_piece) ==
    BoardAdd(BoardRemove(board, corner_squ, rook_piece), middle_squ, rook_piece)

\* a clock that quiet moves leave as it is
NextClock_Stopped(capture, ptype, half_move_clock) ==
    IF ~capture /\ ptype # Pawn THEN half_move_clock ELSE 0

\* apply_move: the half-move clock (u8) after the move
NextClock(capture, ptype, half_move_clock) ==
    IF ~capture /\ ptype # Pawn THEN (half_move_clock + 1) % 256 ELSE 0

\* Position::apply_move
ApplyMove(pos, mov) ==
    LET color == SideToMove(pos)
        opp == Opponent(color)
        castle == mov.special \in {"CastleQ", "CastleK"}
        dfile == FileOf(mov.to) - FileOf(mov.from)
        rank == RankOf(mov.from)
        pawn_squ == SquareAt(FileOf(mov.to), RankOf(mov.from))
        middle_squ == SquareAt(FileOf(mov.from) + TruncDiv(dfile, 2), rank)
        corner_squ == SquareAt(IF dfile > 0 THEN 7 ELSE 0, rank)
        rook_piece == Piece(color, Rook)
        \* deal with captures and special moves
        board1 ==
            CASE mov.special = "EnPassant" -> BoardRemove(pos.board, pawn_squ, Piece(opp, Pawn))
              [] castle -> CastleRook(pos.board, corner_squ, middle_squ, rook_piece)
              [] OTHER -> RemoveCaptured(pos.board, opp, mov.to)
        unmoved1 ==
            CASE mov.special = "EnPassant" -> pos.unmoved \ {mov.to}
              [] castle -> pos.unmoved \ {corner_squ}
              [] OTHER ->
                    IF mov.to \in FindColor(pos.board, opp)
                    THEN pos.unmoved \ {mov.to} ELSE pos.unmoved
        capture ==
            CASE mov.special = "EnPassant" -> TRUE
              [] castle -> FALSE
              [] OTHER -> mov.to \in FindColor(pos.board, opp)
        en_passant_target == EnPassantTarget(mov, unmoved1, pos.en_passant_target)
        \* move piece
        promotion == GetPromotion(mov.special)
        my_ptype == IF promotion # {} THEN CHOOSE t \in promotion : TRUE ELSE mov.ptype
        board2 ==
            BoardAdd(BoardRemove(board1, mov.from, Piece(color, mov.ptype)),
                     mov.to, Piece(color, my_ptype))
    IN  MakePosition(
            board2,
            ClearUnmoved(unmoved1, mov.from, mov.to),
            en_passant_target,
            (pos.ply_number + 1) % 65536,
            NextClock(capture, mov.ptype, pos.half_move_clock))

\* Position::apply_move: whether `self.ply_number += 1` (u16) or
\* `self.half_move_clock += 1` (u8) overflows, a panic in a build with
\* overflow checks and the wrap above in one without
ApplyMoveOverflows(pos, mov) ==
    LET capture ==
            \/ mov.special = "EnPassant"
            \/ /\ mov.special \notin {"CastleQ", "CastleK"}
               /\ mov.to \in FindColor(pos.board, Opponent(SideToMove(pos)))
    IN  \/ pos.ply_number = 65535
        \/ ~capture /\ mov.ptype # Pawn /\ pos.half_move_clock = 255

\* Position::apply_move, its assert! (kept in every build)
ApplyMoveAsserts(pos, mov) ==
    GetPromotion(mov.special) # {} =>
        mov.ptype = Pawn /\ RankOf(mov.to) = RelRank(SideToMove(pos), 7)

\* Position::apply_move, its debug_assert!s and its assert!: whether all of them
\* hold for the move
ApplyMoveChecks(pos, mov) ==
    LET color == SideToMove(pos)
        dfile == FileOf(mov.to) - FileOf(mov.from)
        rank == RankOf(mov.from)
        pawn_squ == SquareAt(FileOf(mov.to), RankOf(mov.from))
        middle_squ == SquareAt(FileOf(mov.from) + TruncDiv(dfile, 2), rank)
        corner_squ == SquareAt(IF dfile > 0 THEN 7 ELSE 0, rank)
    IN  /\ mov.from \in FindPiece(pos.board, Piece(color, mov.ptype))
        /\ mov.to \notin FindColor(pos.board, color)
        /\ mov.special = "EnPassant" =>
                /\ mov.ptype = Pawn
                /\ RankOf(mov.from) = RelRank(color, 4)
                /\ pos.en_passant_target = {mov.to}
                /\ pawn_squ \in FindPiece(pos.board, Piece(Opponent(color), Pawn))
        /\ mov.special \in {"CastleQ", "CastleK"} =>
                /\ mov.ptype = King
                /\ RankOf(mov.from) = RelRank(color, 0) /\ FileOf(mov.from) = 4
                /\ mov.from \in pos.unmoved
                /\ RankOf(mov.from) = RankOf(mov.to) /\ AbsDiff(FileOf(mov.to), FileOf(mov.from)) = 2
                /\ corner_squ \in FindPiece(pos.board, Piece(color, Rook))
                /\ corner_squ \in pos.unmoved
                /\ middle_squ \notin AllPieces(pos.board)
        /\ GetPromotion(mov.special) # {} =>
                mov.ptype = Pawn /\ RankOf(mov.to) = RelRank(color, 7)

\* Position::find_king, an Option: bb.iter().next()
FindKing(pos, color) ==
    LET bb == FindPiece(pos.board, Piece(color, King))
    IN  IF bb = {} THEN {} ELSE {FirstBitOr(bb, 0)}

\* Position::gen_attacked
GenAttacked(pos, color, pieces) ==
    LET pawn_forward == ShiftVer(FindPiece(pos.board, Piece(color, Pawn)), Up(color))
    IN  ShiftLeft(pawn_forward, 1) \cup ShiftRight(pawn_forward, 1)
        \cup UNION {KNIGHT_PATTERNS[from] : from \in FindPiece(pos.board, Piece(color, Knight))}
        \cup UNION {CastDiagonals(from, pieces) :
                        from \in FindPiece(pos.board, Piece(color, Bishop))}
        \cup UNION {CastCardinals(from, pieces) :
                        from \in FindPiece(pos.board, Piece(color, Rook))}
        \cup UNION {CastCardinals(from, pieces) \cup CastDiagonals(from, pieces) :
                        from \in FindPiece(pos.board, Piece(color, Queen))}
        \cup UNION {KING_PATTERNS[king_pos] : king_pos \in FindKing(pos, color)}

\* targets generated without masking out the mover's own pieces
ExceptAllies_Dropped(targets, allies) == targets

\* gen_pseudolegal: `& !allies` and `if !allies.at(to)`, the targets that hold
\* no piece of the mover
ExceptAllies(targets, allies) == targets \ allies

\* castling generated without looking at the attacked squares
CastleAllowed_IgnoresAttacks(side, attacked, area) == side

\* gen_pseudolegal: `queen_side && (attacked & queen_area).none()` and its
\* kingside twin
CastleAllowed(side, attacked, area) == side /\ attacked \cap area = {}

\* concatenation of a sequence of move lists, in order
RECURSIVE Flatten(_)
Flatten(lists) == IF lists = <<>> THEN <<>> ELSE Head(lists) \o Flatten(Tail(lists))

\* a pawn step that also offers the far rank without promoting
GenPawnMoves_WithPlain(color, from, to) ==
    IF RankOf(to) = RelRank(color, 7)
    THEN <<Move(Pawn, from, to, "None"), Move(Pawn, from, to, "PromoteN"),
           Move(Pawn, from, to, "PromoteB"), Move(Pawn, from, to, "PromoteR"),
           Move(Pawn, from, to, "PromoteQ")>>
    ELSE <<Move(Pawn, from, to, "None")>>

\* Position::gen_pawn_moves: the moves pushed for one pawn step
GenPawnMoves(color, from, to) ==
    IF RankOf(to) = RelRank(color, 7)
    THEN <<Move(Pawn, from, to, "PromoteN"), Move(Pawn, from, to, "PromoteB"),
           Move(Pawn, from, to, "PromoteR"), Move(Pawn, from, to, "PromoteQ")>>
    ELSE <<Move(Pawn, from, to, "None")>>

\* the loop `for to in targets.iter() { gen_pawn_moves(.., to.shift(dfile, drank), to) }`
PawnLoop(color, targets, dfile, drank) ==
    LET tos == Iter(targets)
    IN  Flatten([i \in 1..Len(tos) |->
                    GenPawnMoves(color, SquareShift(tos[i], dfile, drank), tos[i])])

\* the loops `for from in bb.iter() { for to in targets[from].iter() { push } }`,
\* targets giving the squares each origin may move to
PieceLoop(ptype, bb, targets) ==
    LET froms == Iter(bb)
    IN  Flatten([i \in 1..Len(froms) |->
                    LET tos == Iter(targets[froms[i]])
                    IN  [j \in 1..Len(tos) |-> Move(ptype, froms[i], tos[j], "None")]])

\* Bb(0x0000000101010000).shift_up(rank0): files c, d, e of the home rank
QueenArea(rank0) == ShiftUp({16, 24, 32}, rank0)
\* the kingside area left on White's home rank for both colours
KingArea_Unshifted(rank0) == {32, 40, 48}

\* Bb(0x0001010100000000).shift_up(rank0): files e, f, g of the home rank
KingArea(rank0) == ShiftUp({32, 40, 48}, rank0)

\* en-passant captures whose origin is taken on the wrong side of the target
EnPassantMoves_Mirrored(color, en_passant_target, pawn_cap_left, pawn_cap_right) ==
    Flatten([i \in 1..Len(Iter(en_passant_target)) |->
        LET squ == Iter(en_passant_target)[i]
        IN  (IF squ \in pawn_cap_left /\ FileOf(squ) > 0
             THEN <<Move(Pawn, SquareShift(squ, -1, Down(color)), squ, "EnPassant")>>
             ELSE <<>>)
            \o (IF squ \in pawn_cap_right /\ FileOf(squ) < 7
                THEN <<Move(Pawn, SquareShift(squ, 1, Down(color)), squ, "EnPassant")>>
                ELSE <<>>)])

\* gen_pseudolegal, `if ... self.en_passant_target.is_some() { ... }`: the
\* en-passant captures onto the target (`color == self.side_to_move()` is true
\* by the definition of color)
EnPassantMoves(color, en_passant_target, pawn_cap_left, pawn_cap_right) ==
    Flatten([i \in 1..Len(Iter(en_passant_target)) |->
        LET squ == Iter(en_passant_target)[i]
        IN  (IF squ \in pawn_cap_left
             THEN <<Move(Pawn, SquareShift(squ, 1, Down(color)), squ, "EnPassant")>>
             ELSE <<>>)
            \o (IF squ \in pawn_cap_right
                THEN <<Move(Pawn, SquareShift(squ, -1, Down(color)), squ, "EnPassant")>>
                ELSE <<>>)])

\* gen_pseudolegal, the pawns part
GenPawns(pos) ==
    LET color == SideToMove(pos)
        allies == FindColor(pos.board, color)
        enemies == FindColor(pos.board, Opponent(color))
        pieces == allies \cup enemies
        pawns == FindPiece(pos.board, Piece(color, Pawn))
        pawn_forward0 == ShiftVer(pawns, Up(color))
        pawn_cap_left == ShiftLeft(pawn_forward0, 1)
        pawn_cap_right == ShiftRight(pawn_forward0, 1)
        en_passant == EnPassantMoves(color, pos.en_passant_target, pawn_cap_left, pawn_cap_right)
        pawn_forward == pawn_forward0 \ pieces
        pawn_push == (ShiftVer(pawn_forward, Up(color)) \ pieces) \cap ShiftUp(pos.unmoved, 2)
    IN  en_passant
        \o PawnLoop(color, pawn_forward, 0, Down(color))
        \o PawnLoop(color, pawn_push, 0, Down(color) * 2)
        \o PawnLoop(color, pawn_cap_left \cap enemies, 1, Down(color))
        \o PawnLoop(color, pawn_cap_right \cap enemies, -1, Down(color))

\* gen_pseudolegal, the kings part: king steps, then castling
GenKings(pos) ==
    LET color == SideToMove(pos)
        allies == FindColor(pos.board, color)
        enemies == FindColor(pos.board, Opponent(color))
        pieces == allies \cup enemies
    IN  Flatten([i \in 1..Len(Iter(FindKing(pos, color))) |->
            LET king_pos == Iter(FindKing(pos, color))[i]
                attacked == GenAttacked(pos, Opponent(color), pieces)
                rank0 == RelRank(color, 0)
                queen_corner == SquareAt(0, rank0)
                king_corner == SquareAt(7, rank0)
                queen_area == QueenArea(rank0)
                king_area == KingArea(rank0)
                except_king == pieces \ {king_pos}
                queen_side == queen_corner \in pos.unmoved /\ queen_area \cap except_king = {}
                king_side == king_corner \in pos.unmoved /\ king_area \cap except_king = {}
            IN  PieceLoop(King, {king_pos},
                          [from \in {king_pos} |-> ExceptAllies(KING_PATTERNS[from], allies)])
                \o (IF king_pos \in pos.unmoved /\ CastleAllowed(queen_side, attacked, queen_area)
                    THEN <<Move(King, king_pos, SquareAt(2, rank0), "CastleQ")>> ELSE <<>>)
                \o (IF king_pos \in pos.unmoved /\ CastleAllowed(king_side, attacked, king_area)
                    THEN <<Move(King, king_pos, SquareAt(6, rank0), "CastleK")>> ELSE <<>>)])

\* Position::gen_pseudolegal
GenPseudolegal(pos) ==
    LET color == SideToMove(pos)
        allies == FindColor(pos.board, color)
        pieces == AllPieces(pos.board)
        knights == FindPiece(pos.board, Piece(color, Knight))
        bishops == FindPiece(pos.board, Piece(color, Bishop))
        rooks == FindPiece(pos.board, Piece(color, Rook))
        queens == FindPiece(pos.board, Piece(color, Queen))
    IN  GenPawns(pos)
        \o PieceLoop(Knight, knights,
                     [from \in knights |-> ExceptAllies(KNIGHT_PATTERNS[from], allies)])
        \o PieceLoop(Bishop, bishops,
                     [from \in bishops |-> ExceptAllies(CastDiagonals(from, pieces), allies)])
        \o PieceLoop(Rook, rooks,
                     [from \in rooks |-> ExceptAllies(CastCardinals(from, pieces), allies)])
        \o PieceLoop(Queen, queens,
                     [from \in queens |->
                        ExceptAllies(CastCardinals(from, pieces) \cup CastDiagonals(from, pieces),
                                     allies)])
        \o GenKings(pos)

\* a test that sees no check at all
IsInCheck_Never(pos, color) == FALSE

\* Position::is_in_check
IsInCheck(pos, color) ==
    IF FindKing(pos, color) = {}
    THEN TRUE
    ELSE \E king_pos \in FindKing(pos, color) :
            king_pos \in GenAttacked(pos, Opponent(color), AllPieces(pos.board))

\* a game that ends one half-move later
ClockExpired_Late(half_move_clock) == half_move_clock > 75

\* gen_legal: `if self.half_move_clock >= 75`
ClockExpired(half_move_clock) == half_move_clock >= 75

\* gen_legal without the legality filter
GenLegal_Unfiltered(pos) ==
    IF ClockExpired(pos.half_move_clock) THEN <<>> ELSE GenPseudolegal(pos)

\* Position::gen_legal
GenLegal(pos) ==
    IF ClockExpired(pos.half_move_clock)
    THEN <<>>
    ELSE SelectSeq(GenPseudolegal(pos),
                   LAMBDA mov : ~IsInCheck(ApplyMove(pos, mov), SideToMove(pos)))

\* Position::gen_legal: whether the call panics.  side_to_move computes
\* ply_number - 1 in u16; find_king asserts that a colour has at most one king
\* (for the side to move, and through gen_attacked for the other side when the
\* side to move has a king); gen_pseudolegal debug-asserts that an unmoved king
\* is on its home square; and every pseudo-legal move is applied to a clone.
GenLegalPanics(pos, overflow_checks, debug_assertions) ==
    LET color == SideToMove(pos)
        own_kings == Cardinality(FindPiece(pos.board, Piece(color, King)))
        opp_kings == Cardinality(FindPiece(pos.board, Piece(Opponent(color), King)))
        pseudo == GenPseudolegal(pos)
    IN  /\ ~ClockExpired(pos.half_move_clock)
        /\ \/ overflow_checks /\ pos.ply_number = 0
           \/ own_kings > 1
           \/ own_kings = 1 /\ opp_kings > 1
           \/ /\ debug_assertions
              /\ \E king_pos \in FindKing(pos, color) :
                    /\ king_pos \in pos.unmoved
                    /\ ~(RankOf(king_pos) = RelRank(color, 0) /\ FileOf(king_pos) = 4)
           \/ \E i \in 1..Len(pseudo) :
                \/ debug_assertions /\ ~ApplyMoveChecks(pos, pseudo[i])
                \/ ~ApplyMoveAsserts(pos, pseudo[i])
                \/ overflow_checks /\ ApplyMoveOverflows(pos, pseudo[i])

\* Position::from_fen(Position::FEN_INITIAL):
\* rnbqkbnr/pppppppp/8/8/8/8/PPPPPPPP/RNBQKBNR w KQkq - 0 1
InitialBoard ==
    [p \in PieceOrdinals |->
        CASE p = Piece(White, Pawn) -> BbRank(1)
          [] p = Piece(Black, Pawn) -> BbRank(6)
          [] p = Piece(White, Knight) -> {SquareAt(1, 0), SquareAt(6, 0)}
          [] p = Piece(Black, Knight) -> {SquareAt(1, 7), SquareAt(6, 7)}
          [] p = Piece(White, Bishop) -> {SquareAt(2, 0), SquareAt(5, 0)}
          [] p = Piece(Black, Bishop) -> {SquareAt(2, 7), SquareAt(5, 7)}
          [] p = Piece(White, Rook) -> {SquareAt(0, 0), SquareAt(7, 0)}
          [] p = Piece(Black, Rook) -> {SquareAt(0, 7), SquareAt(7, 7)}
          [] p = Piece(White, Queen) -> {SquareAt(3, 0)}
          [] p = Piece(Black, Queen) -> {SquareAt(3, 7)}
          [] p = Piece(White, King) -> {SquareAt(4, 0)}
          [] OTHER -> {SquareAt(4, 7)}]

InitialPosition ==
    MakePosition(
        InitialBoard,
        BbRank(1) \cup BbRank(6)
            \cup {SquareAt(0, 0), SquareAt(7, 0), SquareAt(4, 0),
                  SquareAt(0, 7), SquareAt(7, 7), SquareAt(4, 7)},
        {}, 1, 0)

\* --------------------------------------------------- state.rs: move text

FileChars == <<"a", "b", "c", "d", "e", "f", "g", "h">>
RankChars == <<"1", "2", "3", "4", "5", "6", "7", "8">>

\* impl Display for Square
SquareText(squ) == FileChars[FileOf(squ) + 1] \o RankChars[RankOf(squ) + 1]

\* a notation that names no piece
Algebraic_Blank(ptype) == ""

\* PieceType::algebraic
Algebraic(ptype) == <<"", "N", "B", "R", "Q", "K">>[ptype + 1]

\* Move::uci_notation
UciNotation(mov) ==
    SquareText(mov.from) \o SquareText(mov.to)
        \o (IF GetPromotion(mov.special) # {}
            THEN Algebraic(CHOOSE t \in GetPromotion(mov.special) : TRUE)
            ELSE "")

\* Move::parse_uci(desc, moves), an Option: the legal move whose text is desc
ParseUci(mov_desc, legal_moves) ==
    LET found == SelectSeq(legal_moves, LAMBDA mov : UciNotation(mov) = mov_desc)
    IN  IF found = <<>> THEN {} ELSE {Head(found)}

\* ------------------------------------------------------------- FEN text
\* A text is modelled as the sequence of its characters, each a one-character
\* string.  The characters used are ASCII, so `!c.is_ascii()` is never true.

DigitChars == <<"0", "1", "2", "3", "4", "5", "6", "7", "8", "9">>
IsDigit(c) == \E i \in 1..10 : DigitChars[i] = c
DigitValue(c) == (CHOOSE i \in 1..10 : DigitChars[i] = c) - 1

\* Piece::FEN_NOTATION
FEN_NOTATION == <<"P", "N", "B", "R", "Q", "K", "p", "n", "b", "r", "q", "k">>

\* Piece::from_fen, an Option: the ordinal of the piece a character names
PieceFromFen(c) == {ord \in PieceOrdinals : FEN_NOTATION[ord + 1] = c}

\* Piece::to_fen
PieceToFen(piece) == FEN_NOTATION[piece + 1]

\* str::split: the fields between the occurrences of sep, empty ones included
RECURSIVE Split(_, _)
Split(text, sep) ==
    IF \A i \in 1..Len(text) : text[i] # sep
    THEN <<text>>
    ELSE LET i == CHOOSE k \in 1..Len(text) :
                    text[k] = sep /\ \A j \in 1..(k - 1) : text[j] # sep
         IN  <<SubSeq(text, 1, i - 1)>> \o Split(SubSeq(text, i + 1, Len(text)), sep)

\* str::parse for an unsigned integer type whose greatest value is max, an
\* Option: an optional '+', then one or more decimal digits, the value in range
RECURSIVE DigitsValue(_, _, _)
DigitsValue(digits, acc, max) ==
    IF digits = <<>> THEN {acc}
    ELSE IF ~IsDigit(Head(digits)) THEN {}
    ELSE IF acc * 10 + DigitValue(Head(digits)) > max THEN {}
    ELSE DigitsValue(Tail(digits), acc * 10 + DigitValue(Head(digits)), max)

ParseUnsigned(text, max) ==
    LET digits == IF text # <<>> /\ Head(text) = "+" THEN Tail(text) ELSE text
    IN  IF digits = <<>> THEN {} ELSE DigitsValue(digits, 0, max)

\* Display for an unsigned integer
RECURSIVE Decimal(_)
Decimal(n) ==
    IF n < 10 THEN <<DigitChars[n + 1]>>
    ELSE Decimal(n \div 10) \o <<DigitChars[(n % 10) + 1]>>

\* parse_file and parse_rank, Options
ParseFile(c) == {i - 1 : i \in {k \in 1..8 : FileChars[k] = c}}
ParseRank(c) == {i - 1 : i \in {k \in 1..8 : RankChars[k] = c}}

\* Square::parse, an Option
SquareParse(text) ==
    IF Len(text) = 2
    THEN {SquareAt(file, rank) : file \in ParseFile(text[1]), rank \in ParseRank(text[2])}
    ELSE {}

\* impl Display for Square, as characters
SquareChars(squ) == <<FileChars[FileOf(squ) + 1], RankChars[RankOf(squ) + 1]>>

\* Board::default
EmptyBoard == [p \in PieceOrdinals |-> {}]

\* Board::from_fen, the loop over the characters of one rank field: an Option of
\* the board once the field is read
RECURSIVE RankFromFen(_, _, _, _)
RankFromFen(chars, file, rank, board) ==
    IF chars = <<>>
    THEN IF file # 8 THEN {} ELSE {board}
    ELSE LET c == Head(chars)
         IN  IF file >= 8 THEN {}
             ELSE IF IsDigit(c) /\ DigitValue(c) >= 1 /\ DigitValue(c) <= 8
             THEN RankFromFen(Tail(chars), file + DigitValue(c), rank, board)
             ELSE IF PieceFromFen(c) = {} THEN {}
             ELSE RankFromFen(Tail(chars), file + 1, rank,
                              BoardAdd(board, SquareAt(file, rank),
                                       CHOOSE piece \in PieceFromFen(c) : TRUE))

\* Board::from_fen, the loop over the rank fields; rank is the counter before
\* the field is read
RECURSIVE RanksFromFen(_, _, _)
RanksFromFen(rank_fields, rank, board) ==
    IF rank_fields = <<>>
    THEN IF rank # 0 THEN {} ELSE {board}
    ELSE IF rank = 0 THEN {}
    ELSE LET read == RankFromFen(Head(rank_fields), 0, rank - 1, board)
         IN  IF read = {} THEN {}
             ELSE RanksFromFen(Tail(rank_fields), rank - 1, CHOOSE b \in read : TRUE)

\* Board::from_fen, an Option
BoardFromFen(s) == RanksFromFen(Split(s, "/"), 8, EmptyBoard)

\* Board::get_pieces: the piece on a square, an Option (the last piece ordinal
\* written wins)
GetPiece(board, squ) ==
    LET on == {p \in PieceOrdinals : squ \in board[p]}
    IN  IF on = {} THEN {} ELSE {CHOOSE p \in on : \A q \in on : q <= p}

\* Board::to_fen, one rank from the given file on, blanks counting the empty
\* squares passed since the last piece
RECURSIVE RankToFen(_, _, _, _)
RankToFen(board, rank, file, blanks) ==
    IF file = 8
    THEN IF blanks > 0 THEN <<DigitChars[blanks + 1]>> ELSE <<>>
    ELSE LET piece == GetPiece(board, SquareAt(file, rank))
         IN  IF piece # {}
             THEN (IF blanks > 0 THEN <<DigitChars[blanks + 1]>> ELSE <<>>)
                  \o <<PieceToFen(CHOOSE p \in piece : TRUE)>>
                  \o RankToFen(board, rank, file + 1, 0)
             ELSE RankToFen(board, rank, file + 1, blanks + 1)

\* Board::to_fen
RECURSIVE BoardToFenFrom(_, _)
BoardToFenFrom(board, rank) ==
    RankToFen(board, rank, 0, 0)
        \o (IF rank # 0 THEN <<"/">> \o BoardToFenFrom(board, rank - 1) ELSE <<>>)

\* the ranks written from rank 1 up
BoardToFen_FromRank1(board) ==
    RankToFen(board, 0, 0, 0)
        \o Flatten([rank \in 1..7 |-> <<"/">> \o RankToFen(board, rank, 0, 0)])

BoardToFen(board) == BoardToFenFrom(board, 7)

\* u16 arithmetic: the wrapped value, and whether the exact value is out of range
U16(x) == x % 65536
OutOfU16(x) == x < 0 \/ x > 65535

\* a castling right taken on trust
RightInPlace_Unchecked(board, color, rook_pos, king_pos) == TRUE

\* Position::from_fen, the negation of its test `!..Rook..at(rook_pos) ||
\* !..King..at(king_pos)`: rook and king are where the right needs them
RightInPlace(board, color, rook_pos, king_pos) ==
    /\ rook_pos \in FindPiece(board, Piece(color, Rook))
    /\ king_pos \in FindPiece(board, Piece(color, King))

\* Position::from_fen, the castling field: an Option of the squares to add to
\* the unmoved set
RECURSIVE CastlingFromFen(_, _, _)
CastlingFromFen(chars, board, unmoved) ==
    IF chars = <<>> THEN {unmoved}
    ELSE LET c == Head(chars)
             color == IF c \in {"K", "Q"} THEN White ELSE Black
             rank0 == IF color = White THEN 0 ELSE 7
             rook_pos == SquareAt(IF c \in {"Q", "q"} THEN 0 ELSE 7, rank0)
             king_pos == SquareAt(4, rank0)
         IN  IF c \notin {"K", "Q", "k", "q"} THEN {}
             ELSE IF ~RightInPlace(board, color, rook_pos, king_pos) THEN {}
             ELSE CastlingFromFen(Tail(chars), board, unmoved \cup {rook_pos, king_pos})

\* the outcomes of from_fen: no value, a position, or a panic
FenNone == [kind |-> "None"]
FenSome(p) == [kind |-> "Some", pos |-> p]
FenPanic == [kind |-> "Panic"]

\* Position::from_fen.  overflow_checks tells whether the build panics on
\* integer overflow (a debug build) or wraps (a release build).
FromFen(fen, overflow_checks) ==
    LET fields == Split(fen, " ")
        board == IF Len(fields) >= 1 THEN BoardFromFen(fields[1]) ELSE {}
        the_board == CHOOSE b \in board : TRUE
        pawns == (FindPiece(the_board, Piece(White, Pawn)) \cap BbRank(1))
                    \cup (FindPiece(the_board, Piece(Black, Pawn)) \cap BbRank(6))
        side_to_move == IF fields[2] = <<"w">> THEN White ELSE Black
        unmoved == IF fields[3] = <<"-">> THEN {pawns}
                   ELSE CastlingFromFen(fields[3], the_board, pawns)
        en_passant_target == IF fields[4] = <<"-">> THEN {} ELSE SquareParse(fields[4])
        half_move_clock == ParseUnsigned(fields[5], 255)
        move_number == ParseUnsigned(fields[6], 65535)
        doubled == 2 * (CHOOSE n \in move_number : TRUE)
        sum == U16(doubled) + side_to_move
        ply_number == U16(sum) - 1
    IN  IF board = {} THEN FenNone
        ELSE IF Len(fields) < 2 \/ fields[2] \notin {<<"w">>, <<"b">>} THEN FenNone
        ELSE IF Len(fields) < 3 \/ unmoved = {} THEN FenNone
        ELSE IF Len(fields) < 4 \/ (fields[4] # <<"-">> /\ en_passant_target = {}) THEN FenNone
        ELSE IF Len(fields) < 5 \/ half_move_clock = {} THEN FenNone
        ELSE IF Len(fields) < 6 \/ move_number = {} THEN FenNone
        ELSE IF overflow_checks /\ (OutOfU16(doubled) \/ OutOfU16(sum) \/ OutOfU16(ply_number))
        THEN FenPanic
        ELSE IF Len(fields) > 6 THEN FenNone
        ELSE FenSome(MakePosition(the_board, CHOOSE u \in unmoved : TRUE, en_passant_target,
                                  U16(ply_number), CHOOSE n \in half_move_clock : TRUE))

\* Color::to_fen
ColorToFen(color) == IF color = White THEN "w" ELSE "b"

\* Position::to_fen, the castling field
CastlingToFen(unmoved) ==
    LET kw == SquareAt(4, 0) \in unmoved
        kb == SquareAt(4, 7) \in unmoved
        ckw == kw /\ SquareAt(7, 0) \in unmoved
        cqw == kw /\ SquareAt(0, 0) \in unmoved
        ckb == kb /\ SquareAt(7, 7) \in unmoved
        cqb == kb /\ SquareAt(0, 7) \in unmoved
    IN  IF ~ckw /\ ~cqw /\ ~ckb /\ ~cqb
        THEN <<"-">>
        ELSE (IF ckw THEN <<"K">> ELSE <<>>) \o (IF cqw THEN <<"Q">> ELSE <<>>)
             \o (IF ckb THEN <<"k">> ELSE <<>>) \o (IF cqb THEN <<"q">> ELSE <<>>)

\* the outcomes of to_fen: a text, or a panic
FenText(text) == [kind |-> "Text", text |-> text]

\* Position::to_fen (compiled for tests).  `self.ply_number - 1` overflows for
\* ply 0: a panic with overflow checks, a wrap without.
ToFen(p, overflow_checks) ==
    LET ply_before == U16(p.ply_number - 1)
        side_to_move == ply_before % 2
        move_number == ply_before \div 2 + 1
    IN  IF overflow_checks /\ OutOfU16(p.ply_number - 1)
        THEN FenPanic
        ELSE FenText(BoardToFen(p.board) \o <<" ", ColorToFen(side_to_move), " ">>
                     \o CastlingToFen(p.unmoved) \o <<" ">>
                     \o (IF p.en_passant_target # {}
                         THEN SquareChars(CHOOSE squ \in p.en_passant_target : TRUE)
                         ELSE <<"-">>)
                     \o <<" ">> \o Decimal(p.half_move_clock)
                     \o <<" ">> \o Decimal(move_number))

\* ------------------------------------------------------------------ ai.rs

\* The piece-square tables, indexed by square (file * 8 + rank): one source
\* line per file, a to h, each listing ranks 1 to 8.

PAWN_VALUE ==
    <<  0,   1,   1,   0,   1,   2,  10,   0,
        0,   2,  -1,   0,   1,   2,  10,   0,
        0,   2,  -2,   0,   2,   4,  10,   0,
        0,  -4,   0,   4,   5,   6,  10,   0,
        0,  -4,   0,   4,   5,   6,  10,   0,
        0,   2,  -2,   0,   2,   4,  10,   0,
        0,   2,  -1,   0,   1,   2,  10,   0,
        0,   1,   1,   0,   1,   2,  10,   0>>

KNIGHT_VALUE ==
    <<-10,  -8,  -6,  -6,  -6,  -6,  -8, -10,
       -8,  -4,   1,   0,   1,   0,  -4,  -8,
       -6,   0,   2,   3,   3,   2,   0,  -6,
       -6,   1,   3,   4,   4,   3,   0,  -6,
       -6,   1,   3,   4,   4,   3,   0,  -6,
       -6,   0,   2,   3,   3,   2,   0,  -6,
       -8,  -4,   1,   0,   1,   0,  -4,  -8,
      -10,  -8,  -6,  -6,  -6,  -6,  -8, -10>>

BISHOP_VALUE ==
    << -4,  -2,  -2,  -2,  -2,  -2,  -2,  -4,
       -2,   1,   2,   0,   1,   0,   0,  -2,
       -2,   0,   2,   2,   1,   1,   0,  -2,
       -2,   0,   2,   2,   2,   2,   0,  -2,
       -2,   0,   2,   2,   2,   2,   0,  -2,
       -2,   0,   2,   2,   1,   1,   0,  -2,
       -2,   1,   2,   0,   1,   0,   0,  -2,
       -4,  -2,  -2,  -2,  -2,  -2,  -2,  -4>>

ROOK_VALUE ==
    <<  0,  -1,  -1,  -1,  -1,  -1,   1,   0,
        0,   0,   0,   0,   0,   0,   2,   0,
        0,   0,   0,   0,   0,   0,   2,   0,
        1,   0,   0,   0,   0,   0,   2,   0,
        1,   0,   0,   0,   0,   0,   2,   0,
        0,   0,   0,   0,   0,   0,   2,   0,
        0,   0,   0,   0,   0,   0,   2,   0,
        0,  -1,  -1,  -1,  -1,  -1,   1,   0>>

QUEEN_VALUE ==
    << -4,  -2,  -2,   0,  -1,  -2,  -2,  -4,
       -2,   0,   1,   0,   0,   0,   0,  -2,
       -2,   1,   1,   1,   1,   1,   0,  -2,
       -1,   0,   1,   1,   1,   1,   0,  -1,
       -1,   0,   1,   1,   1,   1,   0,  -1,
       -2,   0,   1,   1,   1,   1,   0,  -2,
       -2,   0,   0,   0,   0,   0,   0,  -2,
       -4,  -2,  -2,  -1,  -1,  -2,  -2,  -4>>

KING_VALUE ==
    <<  4,   4,  -2,  -4,  -6,  -6,  -6,  -6,
        6,   4,  -4,  -6,  -8,  -8,  -8,  -8,
        2,   0,  -4,  -6,  -8,  -8,  -8,  -8,
        0,   0,  -4,  -8, -10, -10, -10, -10,
        0,   0,  -4,  -8, -10, -10, -10, -10,
        2,   0,  -4,  -6,  -8,  -8,  -8,  -8,
        6,   4,  -4,  -6,  -8,  -8,  -8,  -8,
        4,   4,  -2,  -4,  -6,  -6,  -6,  -6>>

KING_VALUE_ENDGAME ==
    <<-10,  -6,  -6,  -6,  -6,  -6,  -6, -10,
       -6,  -6,  -2,  -2,  -2,  -2,  -4,  -8,
       -6,   0,   4,   6,   6,   4,  -2,  -6,
       -6,   0,   6,   8,   8,   6,   0,  -4,
       -6,   0,   6,   8,   8,   6,   0,  -4,
       -6,   0,   4,   6,   6,   4,  -2,  -6,
       -6,  -6,  -2,  -2,  -2,  -2,  -4,  -8,
      -10,  -6,  -6,  -6,  -6,  -6,  -6, -10>>

\* i16::MAX and i16::MIN
I16_MAX == 32767
I16_MIN == -32768

\* Board::count_pieces
CountPieces(board, color, ptype) == Cardinality(FindPiece(board, Piece(color, ptype)))

RECURSIVE SumSeq(_)
SumSeq(seq) == IF seq = <<>> THEN 0 ELSE Head(seq) + SumSeq(Tail(seq))

\* eval_material: the tables are from white's perspective, a black piece reads
\* the square mirrored to 7 - rank.  (With at most one king and sixteen pieces a
\* side every sum stays within i16.)
EvalMaterial(board, color, ptype, base_val, table) ==
    LET squs == Iter(FindPiece(board, Piece(color, ptype)))
    IN  SumSeq([i \in 1..Len(squs) |->
                LET squ == IF color = Black
                           THEN SquareAt(FileOf(squs[i]), 7 - RankOf(squs[i]))
                           ELSE squs[i]
                IN  base_val + 5 * table[squ + 1]])

\* eval_side
EvalSide(board, color, is_endgame) ==
    EvalMaterial(board, color, Pawn, 100, PAWN_VALUE)
    + EvalMaterial(board, color, Knight, 320, KNIGHT_VALUE)
    + EvalMaterial(board, color, Bishop, 330, BISHOP_VALUE)
    + EvalMaterial(board, color, Rook, 500, ROOK_VALUE)
    + EvalMaterial(board, color, Queen, 900, QUEEN_VALUE)
    + EvalMaterial(board, color, King, 20000,
                   IF is_endgame THEN KING_VALUE_ENDGAME ELSE KING_VALUE)

\* is_endgame
IsEndgame(board, color) ==
    LET queens == CountPieces(board, color, Queen)
        minor == CountPieces(board, color, Knight) + CountPieces(board, color, Bishop)
        other == CountPieces(board, color, Pawn) + CountPieces(board, color, Rook)
    IN  queens = 0 \/ (minor <= 1 /\ other = 0)

\* eval: both sides are scored with the endgame flag of `color`
Eval(board, color) ==
    LET is_endgame == IsEndgame(board, color)
    IN  EvalSide(board, color, is_endgame) - EvalSide(board, Opponent(color), is_endgame)

\* a cutoff taken as soon as the side to move is not worse
BetaCutoff_AtZero(cur_max, max) == cur_max >= 0

\* negamax: `if cur_max >= max`
BetaCutoff(cur_max, max) == cur_max >= max

\* negamax; NegamaxLoop is its `for mov in moves` loop from the i-th move on,
\* with the running cur_max
RECURSIVE Negamax(_, _, _, _), NegamaxLoop(_, _, _, _, _, _)
Negamax(p, depth, min, max) ==
    LET color == SideToMove(p)
        pseudo == GenPseudolegal(p)
    IN  IF depth = 0
        THEN Eval(p.board, color)
        ELSE IF Len(pseudo) = 0
        THEN IF IsInCheck(p, color) THEN -I16_MAX ELSE 0
        ELSE NegamaxLoop(p, depth, pseudo, 1, min, max)

NegamaxLoop(p, depth, pseudo, i, cur_max, max) ==
    IF i > Len(pseudo)
    THEN cur_max
    ELSE LET score == -Negamax(ApplyMove(p, pseudo[i]), depth - 1, -max, -cur_max)
         IN  IF score > cur_max
             THEN IF BetaCutoff(score, max) THEN max
                  ELSE NegamaxLoop(p, depth, pseudo, i + 1, score, max)
             ELSE NegamaxLoop(p, depth, pseudo, i + 1, cur_max, max)

\* SimpleAi::pick_move, the loop from the i-th legal move on with the running
\* max and best_move (an Option: a set of at most one move)
RECURSIVE PickLoop(_, _, _, _, _, _)
PickLoop(p, depth, legal_moves, i, max, best_move) ==
    IF i > Len(legal_moves)
    THEN best_move
    ELSE LET score == -Negamax(ApplyMove(p, legal_moves[i]), depth - 1, -I16_MAX, I16_MAX)
         IN  IF score > max
             THEN PickLoop(p, depth, legal_moves, i + 1, score, {legal_moves[i]})
             ELSE PickLoop(p, depth, legal_moves, i + 1, max, best_move)

\* a search that keeps a move only if its score is above 0
PickMove_FromZero(p, depth, legal_moves) == PickLoop(p, depth, legal_moves, 1, 0, {})

\* SimpleAi::pick_move for a SimpleAi of the given depth; best_move.unwrap()
\* needs a non-empty list
PickMove(p, depth, legal_moves) == PickLoop(p, depth, legal_moves, 1, I16_MIN, {})

\* ------------------------------------------------- the games that are played

RECURSIVE Repeat(_, _)
Repeat(seq, n) == IF n = 0 THEN <<>> ELSE seq \o Repeat(seq, n - 1)

\* a[1], b[1], a[2], b[2], ... for Len(a) = Len(b) + 1
Interleave(a, b) ==
    [i \in 1..(Len(a) + Len(b)) |-> IF i % 2 = 1 THEN a[(i + 1) \div 2] ELSE b[i \div 2]]

\* both sides develop until every castling move is available
Development ==
    <<"e2e4", "e7e6", "g1f3", "g8f6", "f1c4", "f8e7", "d2d4", "b7b6",
      "c1e3", "c8b7", "d1d2", "d7d6", "b1c3", "d8d7">>

\* the move histories a game server may hand over for replay
Games ==
    <<
       \* the four-move scenario of the specification
       <<"e2e4", "e7e5", "f1c4", "f8c5">>,
       \* White to move, both castling moves available
       Development \o <<"a2a3", "b8c6">>,
       \* Black to move, both castling moves available
       Development \o <<"a2a3", "b8c6", "h2h3">>,
       \* a bishop on a6 bears on f1; the black king steps to f8 and back
       <<"e2e4", "e7e6", "f1e2", "b7b6", "e2f3", "c8a6", "g1h3", "g8f6",
         "a2a3", "f8d6", "a3a4", "e8f8", "b2b3", "f8e8", "b3b4">>,
       \* an en-passant capture, then a pawn about to promote by capture
       <<"h2h3", "a7a6", "h3h4", "a6a5", "g2g3", "a5a4", "b2b4", "a4b3",
         "g3g4", "b3a2", "g4g5">>,
       \* 75 plies without a capture or a pawn move, castling still untouched
       Development \o <<"h2h3", "b8c6", "a2a3">>
         \o Interleave(Repeat(<<"c6b8", "b8c6">>, 19),
                       <<"e3f4", "f4g5", "g5e3">> \o Repeat(<<"c3b5", "b5c3">>, 17)),
       \* White is mated on the fourth ply
       <<"f2f3", "e7e6", "g2g4", "d8h4">>,
       \* the black queen gives check on e3, where king or pawn may take it
       <<"b1a3", "e7e6", "d2d4", "d8e7", "e1d2", "e7a3", "a1b1", "a3e3">>,
       \* the white king has moved, its rooks have not; a black pawn stands on a5
       <<"e2e4", "a7a6", "e1e2", "a6a5", "h2h3">>
    >>

VARIABLES
    pos,        \* bot.rs play_game: the Position
    moves,      \* bot.rs play_game: the legal moves of pos
    history,    \* bot.rs play_game: the moves applied so far
    game,       \* which of Games the server's state names
    status,     \* "ok", or "failed" once play_game has returned Err
    fen,              \* run_test_file: the FEN text of the test case
    overflow_checks,  \* whether the build panics on integer overflow
    fen_pos,          \* the outcome of Position::from_fen(fen), once called
    fen_out,          \* the outcome of to_fen on that position, once called
    debug_assertions, \* whether the build keeps debug_assert!
    fen_moved,        \* the outcome of gen_legal and apply_move on that position
    thinker,    \* ParallelAi.thinker: 0 for None, else the worker whose handle it is
    worker,     \* the state of each thread spawned by pick_move_async
    mutex,      \* ParallelAi.ai: 0 if unlocked, else the worker holding the lock
    poisoned,   \* ParallelAi.ai: whether a worker panicked while holding the lock
    caller,     \* the thread that owns the ParallelAi: "ok" or "panicked"
    answer,     \* what the last call of try_get_result gave
    taken,      \* the workers whose move try_get_result has returned, in order
    owner_pos,  \* gui.rs self.position, named by the number of moves made on it
    input,      \* the clone of the position that each worker was spawned with
    ai_depth,      \* SimpleAi.depth of the engine that plays
    best_move,  \* what the engine's pick_move gave for pos, until it is applied
    cast_from,     \* the origin square given to cast_cardinals or cast_diagonals
    cast_pieces,   \* the occupancy given with it
    cast_res    \* the call made and the bitboard it returned, once called

gameVars == <<pos, moves, history, game, status>>
fenVars == <<fen, overflow_checks, fen_pos, fen_out, debug_assertions, fen_moved>>
aiVars == <<thinker, worker, mutex, poisoned, caller, answer, taken, owner_pos, input>>
searchVars == <<ai_depth, best_move>>
castVars == <<cast_from, cast_pieces, cast_res>>
vars ==
    <<pos, moves, history, game, status,
      fen, overflow_checks, fen_pos, fen_out, debug_assertions, fen_moved,
      thinker, worker, mutex, poisoned, caller, answer, taken, owner_pos, input,
      ai_depth, best_move,
      cast_from, cast_pieces, cast_res>>

\* Position::FEN_INITIAL
FEN_INITIAL ==
    <<"r", "n", "b", "q", "k", "b", "n", "r", "/", "p", "p", "p", "p", "p", "p", "p", "p", "/">>
        \o <<"8", "/", "8", "/", "8", "/", "8", "/", "P", "P", "P", "P", "P", "P", "P", "P", "/", "R", "N", "B", "Q", "K", "B", "N", "R">>
        \o <<" ", "w", " ", "K", "Q", "k", "q", " ", "-", " ", "0", " ", "1">>

\* from_fen or to_fen not called yet
FenPending == [kind |-> "Pending"]

\* a game is played from FEN_INITIAL: no other text is parsed
FenIdle ==
    /\ fen = FEN_INITIAL
    /\ overflow_checks = TRUE
    /\ debug_assertions = TRUE
    /\ fen_pos = FenPending
    /\ fen_out = FenPending
    /\ fen_moved = FenPending

\* ParallelAi::new: no worker, the strategy unlocked
AiIdle ==
    /\ thinker = 0
    /\ worker = [w \in 1..MaxSubmit |-> "unborn"]
    /\ mutex = 0
    /\ poisoned = FALSE
    /\ caller = "ok"
    /\ answer = [kind |-> "Pending"]
    /\ taken = <<>>
    /\ owner_pos = 0
    /\ input = [w \in 1..MaxSubmit |-> 0]

\* pick_move not called
NoMove == [kind |-> "Pending"]

\* no SimpleAi is asked for a move
SearchIdle ==
    /\ ai_depth = 1
    /\ best_move = NoMove

\* cast_cardinals or cast_diagonals not called
CastPending == [fn |-> "Pending"]

\* no ray is cast on its own
CastIdle ==
    /\ cast_from = 0
    /\ cast_pieces = {}
    /\ cast_res = CastPending

\* no game is played while FEN texts or a ParallelAi are tested
GameIdle ==
    /\ pos = InitialPosition
    /\ moves = <<>>
    /\ history = <<>>
    /\ game = 1
    /\ status = "ok"

Init ==
    /\ game \in 1..Len(Games)
    /\ pos = InitialPosition
    /\ moves = GenLegal(InitialPosition)
    /\ history = <<>>
    /\ status = "ok"
    /\ FenIdle
    /\ AiIdle
    /\ SearchIdle
    /\ CastIdle

\* bot.rs play_game, one turn of the replay loop: the next move of the server's
\* history is parsed against the legal moves and applied, or the replay fails
Replay ==
    /\ status = "ok"
    /\ Len(history) < Len(Games[game])
    /\ LET parsed == ParseUci(Games[game][Len(history) + 1], moves)
       IN  IF parsed = {}
           THEN /\ status' = "failed"
                /\ UNCHANGED <<pos, moves, history, game>>
                /\ UNCHANGED fenVars
                /\ UNCHANGED searchVars
                /\ UNCHANGED aiVars
                /\ UNCHANGED castVars
           ELSE LET mov == CHOOSE m \in parsed : TRUE
                IN  /\ pos' = ApplyMove(pos, mov)
                    /\ moves' = GenLegal(ApplyMove(pos, mov))
                    /\ history' = Append(history, mov)
                    /\ UNCHANGED <<game, status>>
                    /\ UNCHANGED fenVars
                    /\ UNCHANGED searchVars
                    /\ UNCHANGED aiVars
                    /\ UNCHANGED castVars

\* bench.rs main / bot.rs game loop, one turn once the history is replayed: some
\* legal move is chosen (by an engine or by the opponent) and applied
Play ==
    /\ status = "ok"
    /\ Len(history) >= Len(Games[game])
    /\ Len(history) < Len(Games[game]) + MaxFree
    /\ \E i \in 1..Len(moves) :
        /\ pos' = ApplyMove(pos, moves[i])
        /\ moves' = GenLegal(ApplyMove(pos, moves[i]))
        /\ history' = Append(history, moves[i])
        /\ UNCHANGED <<game, status>>
        /\ UNCHANGED fenVars
        /\ UNCHANGED searchVars
        /\ UNCHANGED aiVars
        /\ UNCHANGED castVars

Next == Replay \/ Play

Spec == Init /\ [][Next]_vars

\* --------------------------------------------------- FEN texts under test
\* game.rs test_movegen::run_test_file reads each test case's FEN with from_fen
\* and writes positions back with to_fen.  The texts tried are put together
\* from the fields below: every board, side and castling field with a few plain
\* endings, and a few plain beginnings with every ending.

\* piece placements: six that Board::from_fen reads (two with blanks split
\* "44", "pp4pp"), then seven ranks, nine ranks, an unknown letter, a rank of
\* nine squares, a rank of seven squares, a digit 0
FenBoards ==
    {<<"r", "n", "b", "q", "k", "b", "n", "r", "/", "p", "p", "p", "p", "p", "p", "p", "p", "/", "8", "/", "8", "/", "8", "/", "8", "/", "P", "P", "P", "P", "P", "P", "P", "P", "/", "R", "N", "B", "Q", "K", "B", "N", "R">>,
     <<"r", "3", "k", "2", "r", "/", "8", "/", "8", "/", "8", "/", "8", "/", "8", "/", "8", "/", "R", "3", "K", "2", "R">>,
     <<"r", "3", "k", "2", "r", "/", "p", "p", "4", "p", "p", "/", "8", "/", "8", "/", "8", "/", "8", "/", "4", "4", "/", "R", "3", "K", "2", "R">>,
     <<"1", "r", "2", "k", "2", "r", "/", "8", "/", "8", "/", "8", "/", "8", "/", "8", "/", "8", "/", "R", "3", "K", "1", "R", "1">>,
     <<"r", "3", "k", "2", "r", "/", "8", "/", "8", "/", "8", "/", "8", "/", "8", "/", "8", "/", "R", "2", "K", "3", "R">>,
     <<"n", "n", "n", "n", "n", "n", "n", "n", "/", "P", "P", "P", "P", "P", "P", "P", "P", "/", "8", "/", "8", "/", "8", "/", "8", "/", "8", "/", "K", "6", "k">>,
     <<"8", "/", "8", "/", "8", "/", "8", "/", "8", "/", "8", "/", "8">>,
     <<"r", "3", "k", "2", "r", "/", "8", "/", "8", "/", "8", "/", "8", "/", "8", "/", "8", "/", "R", "3", "K", "2", "R", "/", "8">>,
     <<"r", "3", "k", "2", "r", "/", "8", "/", "8", "/", "8", "/", "8", "/", "8", "/", "8", "/", "R", "3", "K", "2", "x">>,
     <<"r", "3", "k", "2", "r", "/", "8", "/", "8", "/", "8", "/", "8", "/", "8", "/", "8", "/", "R", "3", "K", "3", "R">>,
     <<"r", "3", "k", "2", "r", "/", "8", "/", "8", "/", "8", "/", "8", "/", "8", "/", "7", "/", "R", "3", "K", "2", "R">>,
     <<"r", "3", "k", "2", "r", "/", "0", "8", "/", "8", "/", "8", "/", "8", "/", "8", "/", "8", "/", "R", "3", "K", "2", "R">>}

\* side to move
FenSides ==
    {<<"w">>,
     <<"b">>,
     <<"W">>,
     <<>>}

\* castling rights
FenCastlings ==
    {<<"-">>,
     <<"K", "Q", "k", "q">>,
     <<"K", "q">>,
     <<"q", "K">>,
     <<"K", "K">>,
     <<"K", "x">>,
     <<"k">>,
     <<>>}

\* en-passant target, half-move clock and full-move number as a FEN writer puts them
FenPlainEndings ==
    {<<" ", "-", " ", "0", " ", "1">>,
     <<" ", "e", "3", " ", "7", " ", "2">>,
     <<" ", "h", "6", " ", "7", "4", " ", "3", "2", "7", "6", "7">>}

\* every ending tried: odd targets, clocks and move numbers, fields missing, fields added
FenEndings ==
    {<<" ", "-", " ", "0", " ", "1">>,
     <<" ", "e", "3", " ", "7", " ", "2">>,
     <<" ", "h", "6", " ", "7", "4", " ", "3", "2", "7", "6", "7">>,
     <<" ", "e", "9", " ", "0", " ", "1">>,
     <<" ", "e", " ", "0", " ", "1">>,
     <<" ", "E", "3", " ", "0", " ", "1">>,
     <<" ", " ", "0", " ", "1">>,
     <<" ", "-", " ", "0", "0", "7", " ", "1">>,
     <<" ", "-", " ", "2", "5", "5", " ", "1">>,
     <<" ", "-", " ", "2", "5", "6", " ", "1">>,
     <<" ", "-", " ", "x", " ", "1">>,
     <<" ", "-", " ", "-", "1", " ", "1">>,
     <<" ", "-", " ", "+", "7", " ", "1">>,
     <<" ", "-", " ", " ", "1">>,
     <<" ", "-", " ", "0", " ", "0">>,
     <<" ", "-", " ", "0", " ", "3", "2", "7", "6", "8">>,
     <<" ", "-", " ", "0", " ", "4", "0", "0", "0", "0">>,
     <<" ", "-", " ", "0", " ", "6", "5", "5", "3", "5">>,
     <<" ", "-", " ", "0", " ", "6", "5", "5", "3", "6">>,
     <<" ", "-", " ", "0", " ", "x">>,
     <<" ", "-", " ", "0", " ", "0", "1", "0">>,
     <<" ", "-", " ", "0", " ", "-", "1">>,
     <<" ", "-", " ", "0", " ">>,
     <<" ", "-", " ", "0">>,
     <<" ", "-">>,
     <<>>,
     <<" ", "-", " ", "0", " ", "1", " ", "x">>,
     <<" ", "-", " ", "0", " ", "0", " ", "x">>,
     <<" ", "-", " ", "0", " ", "1", " ">>}

\* board, side and castling rights as a FEN writer puts them
FenPlainBeginnings ==
    {<<"r", "n", "b", "q", "k", "b", "n", "r", "/", "p", "p", "p", "p", "p", "p", "p", "p", "/", "8", "/", "8", "/", "8", "/", "8", "/", "P", "P", "P", "P", "P", "P", "P", "P", "/", "R", "N", "B", "Q", "K", "B", "N", "R", " ", "w", " ", "K", "Q", "k", "q">>,
     <<"r", "n", "b", "q", "k", "b", "n", "r", "/", "p", "p", "p", "p", "p", "p", "p", "p", "/", "8", "/", "8", "/", "8", "/", "8", "/", "P", "P", "P", "P", "P", "P", "P", "P", "/", "R", "N", "B", "Q", "K", "B", "N", "R", " ", "b", " ", "K", "Q", "k", "q">>,
     <<"r", "3", "k", "2", "r", "/", "8", "/", "8", "/", "8", "/", "8", "/", "8", "/", "8", "/", "R", "3", "K", "2", "R", " ", "b", " ", "K", "q">>,
     <<"n", "n", "n", "n", "n", "n", "n", "n", "/", "P", "P", "P", "P", "P", "P", "P", "P", "/", "8", "/", "8", "/", "8", "/", "8", "/", "8", "/", "K", "6", "k", " ", "w", " ", "-">>}

FenInputs ==
    {board \o <<" ">> \o side \o <<" ">> \o castling \o ending :
        board \in FenBoards, side \in FenSides, castling \in FenCastlings,
        ending \in FenPlainEndings}
    \cup {beginning \o ending : beginning \in FenPlainBeginnings, ending \in FenEndings}

FenInit ==
    /\ fen \in FenInputs
    /\ overflow_checks \in BOOLEAN
    /\ debug_assertions = TRUE
    /\ fen_pos = FenPending
    /\ fen_out = FenPending
    /\ fen_moved = FenPending
    /\ GameIdle
    /\ AiIdle
    /\ SearchIdle
    /\ CastIdle

\* run_test_file: Position::from_fen(&case.start.fen)
CallFromFen ==
    /\ fen_pos = FenPending
    /\ fen_pos' = FromFen(fen, overflow_checks)
    /\ UNCHANGED <<fen, overflow_checks, fen_out, debug_assertions, fen_moved>>
    /\ UNCHANGED gameVars
    /\ UNCHANGED aiVars
    /\ UNCHANGED castVars
    /\ UNCHANGED searchVars

\* run_test_file: to_fen of the position that was read
CallToFen ==
    /\ fen_pos.kind = "Some"
    /\ fen_out = FenPending
    /\ fen_out' = ToFen(fen_pos.pos, overflow_checks)
    /\ UNCHANGED <<fen, overflow_checks, fen_pos, debug_assertions, fen_moved>>
    /\ UNCHANGED gameVars
    /\ UNCHANGED aiVars
    /\ UNCHANGED castVars
    /\ UNCHANGED searchVars

\* run_test_file: `let moves = pos.gen_legal()`, then for one of the moves
\* `pos2.apply_move(&mov)` on a clone.  (gen_legal has applied every move
\* itself, so apply_move cannot panic here.)
CallApplyMove ==
    /\ fen_pos.kind = "Some"
    /\ fen_moved = FenPending
    /\ IF GenLegalPanics(fen_pos.pos, overflow_checks, debug_assertions)
       THEN fen_moved' = FenPanic
       ELSE LET legal == GenLegal(fen_pos.pos)
            IN  \E i \in 1..Len(legal) :
                    fen_moved' = [kind |-> "Some", mov |-> legal[i],
                                  pos |-> ApplyMove(fen_pos.pos, legal[i])]
    /\ UNCHANGED <<fen, overflow_checks, fen_pos, fen_out, debug_assertions>>
    /\ UNCHANGED gameVars
    /\ UNCHANGED aiVars
    /\ UNCHANGED castVars
    /\ UNCHANGED searchVars

FenNext == CallFromFen \/ CallToFen

FenSpec == FenInit /\ [][FenNext]_vars

\* --------------------------------------------- moves applied to FEN positions
\* run_test_file applies every move gen_legal gives on the test case's
\* position.  The texts tried are accepted by from_fen in some build: castling
\* and promotion positions, en passant fields with and without a pawn behind
\* them, move numbers at the ends of u16, and a board with two white kings.

TestFens ==
    {<<"4", "k", "3", "/", "4", "P", "p", "2", "/", "8", "/", "8", "/", "8", "/", "8", "/", "8", "/", "4", "K", "3", " ", "w", " ", "-", " ", "f", "8", " ", "0", " ", "1">>,
     <<"r", "n", "b", "q", "k", "b", "n", "r", "/", "p", "p", "p", "p", "p", "p", "p", "p", "/", "8", "/", "8", "/", "8", "/", "8", "/", "P", "P", "P", "P", "P", "P", "P", "P", "/", "R", "N", "B", "Q", "K", "B", "N", "R", " ", "w", " ", "K", "Q", "k", "q", " ", "-", " ", "0", " ", "1">>,
     <<"r", "n", "b", "q", "k", "b", "n", "r", "/", "p", "p", "p", "p", "p", "p", "p", "p", "/", "8", "/", "8", "/", "8", "/", "8", "/", "P", "P", "P", "P", "P", "P", "P", "P", "/", "R", "N", "B", "Q", "K", "B", "N", "R", " ", "w", " ", "K", "Q", "k", "q", " ", "e", "3", " ", "7", " ", "2">>,
     <<"r", "3", "k", "2", "r", "/", "8", "/", "8", "/", "8", "/", "8", "/", "8", "/", "8", "/", "R", "3", "K", "2", "R", " ", "w", " ", "K", "Q", "k", "q", " ", "-", " ", "0", " ", "1">>,
     <<"r", "3", "k", "2", "r", "/", "8", "/", "8", "/", "8", "/", "8", "/", "8", "/", "8", "/", "R", "3", "K", "2", "R", " ", "b", " ", "K", "Q", "k", "q", " ", "-", " ", "0", " ", "1">>,
     <<"r", "3", "k", "2", "r", "/", "8", "/", "8", "/", "8", "/", "8", "/", "8", "/", "8", "/", "R", "N", "2", "K", "2", "R", " ", "w", " ", "K", "Q", "k", "q", " ", "-", " ", "0", " ", "1">>,
     <<"n", "n", "n", "n", "n", "n", "n", "n", "/", "P", "P", "P", "P", "P", "P", "P", "P", "/", "8", "/", "8", "/", "8", "/", "8", "/", "8", "/", "K", "6", "k", " ", "w", " ", "-", " ", "-", " ", "0", " ", "1">>,
     <<"4", "k", "3", "/", "8", "/", "8", "/", "3", "p", "P", "3", "/", "8", "/", "8", "/", "8", "/", "4", "K", "3", " ", "w", " ", "-", " ", "d", "6", " ", "0", " ", "2">>,
     <<"4", "k", "3", "/", "8", "/", "8", "/", "8", "/", "3", "p", "P", "3", "/", "8", "/", "8", "/", "4", "K", "3", " ", "b", " ", "-", " ", "e", "3", " ", "0", " ", "1">>,
     <<"4", "k", "3", "/", "8", "/", "8", "/", "8", "/", "8", "/", "3", "p", "4", "/", "4", "P", "3", "/", "4", "K", "3", " ", "b", " ", "-", " ", "e", "2", " ", "0", " ", "1">>,
     <<"4", "k", "3", "/", "8", "/", "8", "/", "8", "/", "8", "/", "8", "/", "p", "7", "/", "1", "N", "2", "K", "3", " ", "b", " ", "-", " ", "-", " ", "0", " ", "1">>,
     <<"4", "k", "3", "/", "8", "/", "8", "/", "8", "/", "8", "/", "8", "/", "4", "P", "3", "/", "4", "K", "3", " ", "w", " ", "-", " ", "-", " ", "0", " ", "3", "2", "7", "6", "8">>,
     <<"4", "k", "3", "/", "8", "/", "8", "/", "8", "/", "8", "/", "8", "/", "4", "P", "3", "/", "4", "K", "3", " ", "b", " ", "-", " ", "-", " ", "0", " ", "0">>,
     <<"4", "k", "3", "/", "8", "/", "8", "/", "8", "/", "8", "/", "8", "/", "4", "P", "3", "/", "4", "K", "3", " ", "w", " ", "-", " ", "-", " ", "7", "4", " ", "4", "0">>,
     <<"4", "k", "3", "/", "8", "/", "8", "/", "8", "/", "8", "/", "8", "/", "8", "/", "K", "3", "K", "3", " ", "w", " ", "-", " ", "-", " ", "0", " ", "1">>}

TestInit ==
    /\ fen \in TestFens
    /\ overflow_checks \in BOOLEAN
    /\ debug_assertions \in BOOLEAN
    /\ fen_pos = FenPending
    /\ fen_out = FenPending
    /\ fen_moved = FenPending
    /\ GameIdle
    /\ AiIdle
    /\ SearchIdle
    /\ CastIdle

TestNext == CallFromFen \/ CallApplyMove

TestSpec == TestInit /\ [][TestNext]_vars


\* ------------------------------------------------------ ai.rs: ParallelAi
\* One ParallelAi and the threads around it.  The owner calls pick_move_async
\* and try_get_result (both take &mut self, so one call at a time); every call
\* of pick_move_async spawns a worker, which locks the strategy, runs its
\* pick_move, unlocks and ends.  A worker's move is named by the worker.

AiInit ==
    /\ AiIdle
    /\ GameIdle
    /\ FenIdle
    /\ SearchIdle
    /\ CastIdle

\* a lock that is given to every thread that asks
MutexAvailable_Always(holder) == TRUE

\* Mutex::lock returns once no other thread holds the lock
MutexAvailable(holder) == holder = 0

\* a handle that is read and left in place
TakeThinker_Kept(handle) == handle

\* Option::take leaves None behind
TakeThinker(handle) == 0

\* a handle that counts as finished from the moment its thread exists
IsFinished_Spawned(w) == worker[w] # "unborn"

\* JoinHandle::is_finished
IsFinished(w) == worker[w] \in {"finished", "panicked"}

\* ParallelAi::is_thinking
IsThinking == thinker # 0

\* what the worker's closure returns: the strategy's pick_move on the clones
\* the closure owns, a move named by the worker and the position it is for
StrategyAnswer(w, given) == [by |-> w, for |-> given]

\* gui.rs make_move: the owner's position moves on (a click, or a bot's move)
MakeMove ==
    /\ caller = "ok"
    /\ owner_pos < MaxMoves
    /\ owner_pos' = owner_pos + 1
    /\ UNCHANGED <<thinker, worker, mutex, poisoned, caller, answer, taken, input>>
    /\ UNCHANGED gameVars
    /\ UNCHANGED fenVars
    /\ UNCHANGED searchVars
    /\ UNCHANGED castVars

\* ParallelAi::pick_move_async: a thread is spawned and its handle replaces the
\* stored one (a replaced handle is dropped, its thread runs on detached)
PickMoveAsync ==
    /\ caller = "ok"
    /\ \E w \in 1..MaxSubmit :
        /\ worker[w] = "unborn"
        /\ \A v \in 1..(w - 1) : worker[v] # "unborn"
        /\ worker' = [worker EXCEPT ![w] = "waiting"]
        /\ thinker' = w
        /\ input' = [input EXCEPT ![w] = owner_pos]
    /\ UNCHANGED <<mutex, poisoned, caller, answer, taken, owner_pos>>
    /\ UNCHANGED gameVars
    /\ UNCHANGED fenVars
    /\ UNCHANGED searchVars
    /\ UNCHANGED castVars

\* the worker: `let mut ai = ai.lock().unwrap()`; on a poisoned lock unwrap
\* panics and the thread ends
WorkerLock(w) ==
    /\ worker[w] = "waiting"
    /\ MutexAvailable(mutex)
    /\ IF poisoned
       THEN /\ worker' = [worker EXCEPT ![w] = "panicked"]
            /\ UNCHANGED mutex
       ELSE /\ worker' = [worker EXCEPT ![w] = "running"]
            /\ mutex' = w
    /\ UNCHANGED <<thinker, poisoned, caller, answer, taken, owner_pos, input>>
    /\ UNCHANGED gameVars
    /\ UNCHANGED fenVars
    /\ UNCHANGED searchVars
    /\ UNCHANGED castVars

\* the worker: ai.pick_move returns and the guard is dropped
WorkerReturn(w) ==
    /\ worker[w] = "running"
    /\ worker' = [worker EXCEPT ![w] = "returned"]
    /\ mutex' = IF mutex = w THEN 0 ELSE mutex
    /\ UNCHANGED <<thinker, poisoned, caller, answer, taken, owner_pos, input>>
    /\ UNCHANGED gameVars
    /\ UNCHANGED fenVars
    /\ UNCHANGED searchVars
    /\ UNCHANGED castVars

\* the worker: ai.pick_move panics (SimpleAi and RandomAi do on an empty move
\* list); the guard is dropped during unwinding and poisons the lock
WorkerPanic(w) ==
    /\ worker[w] = "running"
    /\ worker' = [worker EXCEPT ![w] = "panicked"]
    /\ mutex' = IF mutex = w THEN 0 ELSE mutex
    /\ poisoned' = TRUE
    /\ UNCHANGED <<thinker, caller, answer, taken, owner_pos, input>>
    /\ UNCHANGED gameVars
    /\ UNCHANGED fenVars
    /\ UNCHANGED searchVars
    /\ UNCHANGED castVars

\* the worker: the closure has returned its move, the thread is finished
WorkerExit(w) ==
    /\ worker[w] = "returned"
    /\ worker' = [worker EXCEPT ![w] = "finished"]
    /\ UNCHANGED <<thinker, mutex, poisoned, caller, answer, taken, owner_pos, input>>
    /\ UNCHANGED gameVars
    /\ UNCHANGED fenVars
    /\ UNCHANGED searchVars
    /\ UNCHANGED castVars

\* ParallelAi::try_get_result: expect() panics without a handle; a finished
\* worker is taken and joined, and unwrap panics if the worker panicked;
\* otherwise None
TryGetResult ==
    /\ caller = "ok"
    /\ IF thinker = 0
       THEN /\ caller' = "panicked"
            /\ answer' = [kind |-> "Panic"]
            /\ UNCHANGED <<thinker, taken>>
       ELSE IF IsFinished(thinker)
       THEN /\ thinker' = TakeThinker(thinker)
            /\ IF worker[thinker] = "finished"
               THEN /\ answer' = [kind |-> "Some", move |-> StrategyAnswer(thinker, input[thinker])]
                    /\ taken' = Append(taken, thinker)
                    /\ UNCHANGED caller
               ELSE /\ answer' = [kind |-> "Panic"]
                    /\ caller' = "panicked"
                    /\ UNCHANGED taken
       ELSE /\ answer' = [kind |-> "None"]
            /\ UNCHANGED <<thinker, caller, taken>>
    /\ UNCHANGED <<worker, mutex, poisoned, owner_pos, input>>
    /\ UNCHANGED gameVars
    /\ UNCHANGED fenVars
    /\ UNCHANGED searchVars
    /\ UNCHANGED castVars

AiNext ==
    \/ PickMoveAsync
    \/ TryGetResult
    \/ MakeMove
    \/ \E w \in 1..MaxSubmit : WorkerLock(w)
    \/ \E w \in 1..MaxSubmit : WorkerReturn(w)
    \/ \E w \in 1..MaxSubmit : WorkerPanic(w)
    \/ \E w \in 1..MaxSubmit : WorkerExit(w)

AiSpec == AiInit /\ [][AiNext]_vars

\* gui.rs process_frame: while is_thinking() the owner calls try_get_result
\* again on a later frame
Poll == TryGetResult /\ IsThinking

\* the operating system runs every thread that can run, and the owner's frame
\* loop keeps polling
AiFairSpec ==
    /\ AiSpec
    /\ WF_vars(Poll)
    /\ \A w \in 1..MaxSubmit : WF_vars(WorkerLock(w)) /\ WF_vars(WorkerExit(w))

\* ------------------------------------------------- an engine playing itself
\* bench.rs main: a SimpleAi of a fixed depth is asked for a move for each
\* position in turn and its move is applied, until there is no legal move.
\* bot.rs play_game takes the starting position from a FEN text of the server;
\* the texts tried are endgames, whose searches are small.

SearchFens ==
    {<<"8", "/", "p", "2", "k", "4", "/", "8", "/", "4", "P", "3", "/", "8", "/", "8", "/", "8", "/", "K", "7", " ", "w", " ", "-", " ", "-", " ", "0", " ", "1">>,
     <<"8", "/", "8", "/", "8", "/", "8", "/", "8", "/", "k", "7", "/", "1", "p", "6", "/", "1", "K", "6", " ", "b", " ", "-", " ", "-", " ", "0", " ", "1">>,
     <<"4", "k", "3", "/", "8", "/", "8", "/", "8", "/", "8", "/", "8", "/", "4", "P", "3", "/", "4", "K", "3", " ", "w", " ", "-", " ", "-", " ", "0", " ", "1">>,
     <<"8", "/", "1", "P", "6", "/", "8", "/", "8", "/", "8", "/", "8", "/", "k", "7", "/", "2", "K", "5", " ", "w", " ", "-", " ", "-", " ", "0", " ", "1">>,
     <<"7", "k", "/", "8", "/", "8", "/", "8", "/", "8", "/", "8", "/", "R", "7", "/", "K", "7", " ", "w", " ", "-", " ", "-", " ", "0", " ", "1">>,
     <<"4", "k", "3", "/", "4", "p", "3", "/", "8", "/", "8", "/", "8", "/", "8", "/", "8", "/", "4", "K", "3", " ", "b", " ", "-", " ", "-", " ", "0", " ", "1">>,
     <<"8", "/", "8", "/", "8", "/", "3", "k", "4", "/", "8", "/", "3", "K", "4", "/", "4", "P", "3", "/", "8", " ", "w", " ", "-", " ", "-", " ", "0", " ", "1">>,
     <<"7", "k", "/", "5", "Q", "2", "/", "6", "K", "1", "/", "8", "/", "8", "/", "8", "/", "8", "/", "8", " ", "b", " ", "-", " ", "-", " ", "0", " ", "1">>,
     <<"4", "k", "3", "/", "8", "/", "8", "/", "3", "p", "4", "/", "4", "P", "3", "/", "8", "/", "8", "/", "4", "K", "3", " ", "w", " ", "-", " ", "-", " ", "0", " ", "1">>}

SearchInit ==
    /\ fen \in SearchFens
    /\ overflow_checks = TRUE
    /\ debug_assertions = TRUE
    /\ fen_pos = FromFen(fen, TRUE)
    /\ fen_out = FenPending
    /\ fen_moved = FenPending
    /\ fen_pos.kind = "Some"
    /\ pos = fen_pos.pos
    /\ moves = GenLegal(fen_pos.pos)
    /\ history = <<>>
    /\ game = 1
    /\ status = "ok"
    /\ ai_depth \in 1..MaxDepth
    /\ best_move = NoMove
    /\ AiIdle
    /\ CastIdle

\* bench.rs: `let mov = ai.pick_move(&pos, &moves)`; best_move.unwrap() panics
\* if no move was kept
Think ==
    /\ status = "ok"
    /\ best_move = NoMove
    /\ moves # <<>>
    /\ Len(history) < MaxPlies
    /\ LET picked == PickMove(pos, ai_depth, moves)
       IN  IF picked = {}
           THEN /\ status' = "panicked"
                /\ UNCHANGED best_move
           ELSE /\ best_move' = [kind |-> "Some", move |-> CHOOSE mov \in picked : TRUE]
                /\ UNCHANGED status
    /\ UNCHANGED <<pos, moves, history, game, ai_depth>>
    /\ UNCHANGED fenVars
    /\ UNCHANGED aiVars
    /\ UNCHANGED castVars

\* bench.rs: `pos.apply_move(&mov)`, then the next turn's gen_legal
MakeBest ==
    /\ status = "ok"
    /\ best_move # NoMove
    /\ pos' = ApplyMove(pos, best_move.move)
    /\ moves' = GenLegal(ApplyMove(pos, best_move.move))
    /\ history' = Append(history, best_move.move)
    /\ best_move' = NoMove
    /\ UNCHANGED <<game, status, ai_depth>>
    /\ UNCHANGED fenVars
    /\ UNCHANGED aiVars
    /\ UNCHANGED castVars

SearchNext == Think \/ MakeBest

SearchSpec == SearchInit /\ [][SearchNext]_vars

\* ------------------------------------------------- bitboard.rs: the rays

\* the line patterns that cast_cardinals and cast_diagonals give to cast_ray
\* for an origin: its rank, its file, its diagonal and its antidiagonal
CastPatterns(from) ==
    <<BbRank(RankOf(from)), BbFile(FileOf(from)),
      DIAGONALS[7 + FileOf(from) - RankOf(from)],
      ANTIDIAGONALS[FileOf(from) + RankOf(from)]>>

\* the occupancies a ray is cast through: any set of squares of one line
\* through the origin (the origin included), alone or with every square off
\* that line occupied as well
CastOccupancies(from) ==
    UNION {{on \cup off : on \in SUBSET CastPatterns(from)[i],
                          off \in {{}, Squares \ CastPatterns(from)[i]}} : i \in 1..4}

CastInit ==
    /\ cast_from \in Squares
    /\ cast_pieces \in CastOccupancies(cast_from)
    /\ cast_res = CastPending
    /\ GameIdle
    /\ FenIdle
    /\ AiIdle
    /\ SearchIdle

\* cast_cardinals(from, pieces)
CallCastCardinals ==
    /\ cast_res = CastPending
    /\ cast_res' = [fn |-> "cast_cardinals", bb |-> CastCardinals(cast_from, cast_pieces)]
    /\ UNCHANGED <<cast_from, cast_pieces>>
    /\ UNCHANGED gameVars
    /\ UNCHANGED fenVars
    /\ UNCHANGED aiVars
    /\ UNCHANGED searchVars

\* cast_diagonals(from, pieces)
CallCastDiagonals ==
    /\ cast_res = CastPending
    /\ cast_res' = [fn |-> "cast_diagonals", bb |-> CastDiagonals(cast_from, cast_pieces)]
    /\ UNCHANGED <<cast_from, cast_pieces>>
    /\ UNCHANGED gameVars
    /\ UNCHANGED fenVars
    /\ UNCHANGED aiVars
    /\ UNCHANGED searchVars

CastNext == CallCastCardinals \/ CallCastDiagonals

CastSpec == CastInit /\ [][CastNext]_vars

\* ------------------------------------------------------ the rules of chess
\* Reference definitions, stated square by square from the rules of the game;
\* the properties below compare the generator with them.

Abs(x) == IF x >= 0 THEN x ELSE -x
Sign(x) == IF x > 0 THEN 1 ELSE IF x < 0 THEN -1 ELSE 0
Range(seq) == {seq[i] : i \in 1..Len(seq)}

\* a piece of this colour stands on the square
Holds(board, squ, color) == \E t \in PieceTypes : squ \in board[Piece(color, t)]
IsEmpty(board, squ) == \A p \in PieceOrdinals : squ \notin board[p]

RuleForward(color) == IF color = White THEN 1 ELSE -1
RuleHomeRank(color) == IF color = White THEN 0 ELSE 7
RulePawnRank(color) == IF color = White THEN 1 ELSE 6
RuleFarRank(color) == IF color = White THEN 7 ELSE 0

Straight(a, b) == a # b /\ (FileOf(a) = FileOf(b) \/ RankOf(a) = RankOf(b))
Diagonal(a, b) == a # b /\ Abs(FileOf(a) - FileOf(b)) = Abs(RankOf(a) - RankOf(b))

\* the squares strictly between two squares of one line
Between(a, b) ==
    LET df == FileOf(b) - FileOf(a)
        dr == RankOf(b) - RankOf(a)
        n == IF Abs(df) >= Abs(dr) THEN Abs(df) ELSE Abs(dr)
    IN  {SquareAt(FileOf(a) + k * Sign(df), RankOf(a) + k * Sign(dr)) : k \in 1..(n - 1)}

RuleClear(board, a, b) == \A s \in Between(a, b) : IsEmpty(board, s)

\* a piece of the given colour and type standing on from attacks to
RuleAttacksFrom(board, color, ptype, from, to) ==
    LET df == FileOf(to) - FileOf(from)
        dr == RankOf(to) - RankOf(from)
    IN  CASE ptype = Pawn -> Abs(df) = 1 /\ dr = RuleForward(color)
          [] ptype = Knight -> {Abs(df), Abs(dr)} = {1, 2}
          [] ptype = Bishop -> Diagonal(from, to) /\ RuleClear(board, from, to)
          [] ptype = Rook -> Straight(from, to) /\ RuleClear(board, from, to)
          [] ptype = Queen ->
                (Diagonal(from, to) \/ Straight(from, to)) /\ RuleClear(board, from, to)
          [] OTHER -> from # to /\ Abs(df) <= 1 /\ Abs(dr) <= 1

\* some piece of colour by attacks the square
RuleAttacked(board, squ, by) ==
    \E t \in PieceTypes : \E from \in board[Piece(by, t)] :
        RuleAttacksFrom(board, by, t, from, squ)

\* no move played so far started from the square
NeverLeft(hist, squ) == \A i \in 1..Len(hist) : hist[i].from # squ
\* no move played so far started from or arrived on the square
Untouched(hist, squ) == \A i \in 1..Len(hist) : hist[i].from # squ /\ hist[i].to # squ

\* the square the king crosses when castling
CrossedSquare(mov) == (mov.from + mov.to) \div 2

IsCastle(mov) == mov.special \in {"CastleQ", "CastleK"}

\* the move obeys the movement rules (the mover's king may still be left attacked)
RuleMoveShape(board, hist, color, mov) ==
    LET opp == IF color = White THEN Black ELSE White
        df == FileOf(mov.to) - FileOf(mov.from)
        dr == RankOf(mov.to) - RankOf(mov.from)
        home == SquareAt(4, RuleHomeRank(color))
        corner == SquareAt(IF mov.special = "CastleQ" THEN 0 ELSE 7, RuleHomeRank(color))
        last == hist[Len(hist)]
    IN  /\ mov.from \in board[Piece(color, mov.ptype)]
        /\ ~Holds(board, mov.to, color)
        /\ CASE IsCastle(mov) ->
                    /\ mov.ptype = King
                    /\ mov.from = home
                    /\ mov.to = SquareAt(IF mov.special = "CastleQ" THEN 2 ELSE 6,
                                         RuleHomeRank(color))
                    /\ corner \in board[Piece(color, Rook)]
                    /\ Untouched(hist, home) /\ Untouched(hist, corner)
                    /\ RuleClear(board, home, corner)
                    /\ \A s \in {mov.from, CrossedSquare(mov), mov.to} :
                            ~RuleAttacked(board, s, opp)
              [] mov.special = "EnPassant" ->
                    /\ mov.ptype = Pawn
                    /\ Abs(df) = 1 /\ dr = RuleForward(color)
                    /\ hist # <<>>
                    /\ last.ptype = Pawn
                    /\ RankOf(last.from) = RulePawnRank(opp)
                    /\ last.to = SquareAt(FileOf(last.from),
                                          RulePawnRank(opp) + 2 * RuleForward(opp))
                    /\ mov.to = SquareAt(FileOf(last.from), RulePawnRank(opp) + RuleForward(opp))
              [] mov.ptype = Pawn ->
                    /\ \/ df = 0 /\ dr = RuleForward(color) /\ IsEmpty(board, mov.to)
                       \/ /\ df = 0 /\ dr = 2 * RuleForward(color)
                          /\ RankOf(mov.from) = RulePawnRank(color)
                          /\ RuleClear(board, mov.from, mov.to) /\ IsEmpty(board, mov.to)
                       \/ Abs(df) = 1 /\ dr = RuleForward(color) /\ Holds(board, mov.to, opp)
                    /\ IF RankOf(mov.to) = RuleFarRank(color)
                       THEN mov.special \in {"PromoteN", "PromoteB", "PromoteR", "PromoteQ"}
                       ELSE mov.special = "None"
              [] OTHER ->
                    /\ mov.special = "None"
                    /\ RuleAttacksFrom(board, color, mov.ptype, mov.from, mov.to)

\* the board after the move, by the rules
RuleAfter(board, color, mov) ==
    LET home_rank == RuleHomeRank(color)
        vacated ==
            {mov.from, mov.to}
                \cup (IF mov.special = "EnPassant"
                      THEN {SquareAt(FileOf(mov.to), RankOf(mov.from))} ELSE {})
                \cup (IF mov.special = "CastleQ" THEN {SquareAt(0, home_rank)} ELSE {})
                \cup (IF mov.special = "CastleK" THEN {SquareAt(7, home_rank)} ELSE {})
        arrives ==
            CASE mov.special = "PromoteN" -> Knight
              [] mov.special = "PromoteB" -> Bishop
              [] mov.special = "PromoteR" -> Rook
              [] mov.special = "PromoteQ" -> Queen
              [] OTHER -> mov.ptype
    IN  [p \in PieceOrdinals |->
            (board[p] \ vacated)
                \cup (IF p = Piece(color, arrives) THEN {mov.to} ELSE {})
                \cup (IF p = Piece(color, Rook) /\ IsCastle(mov)
                      THEN {CrossedSquare(mov)} ELSE {})]

\* the move is legal: it obeys the movement rules and leaves the mover's king
\* unattacked
RuleLegal(board, hist, color, mov) ==
    /\ RuleMoveShape(board, hist, color, mov)
    /\ \A k \in RuleAfter(board, color, mov)[Piece(color, King)] :
            ~RuleAttacked(RuleAfter(board, color, mov), k, IF color = White THEN Black ELSE White)

\* every legal move of the side to move
RuleLegalMoves(board, hist, color) ==
    UNION {{mov \in [ptype : {t}, from : board[Piece(color, t)], to : Squares,
                     special : SpecialMoves] : RuleLegal(board, hist, color, mov)} :
            t \in PieceTypes}

\* no two pieces share a square
NoOverlap(board) ==
    \A p \in PieceOrdinals : \A q \in PieceOrdinals : p # q => board[p] \cap board[q] = {}

\* --------------------------------------------------------------- properties
\* In every state moves is the list gen_legal returned for pos (Init, Replay
\* and Play set it so), which is how the properties below read gen_legal.

\* C1: with the half-move clock below 75, gen_legal returns exactly the moves
\* that are legal under the rules of chess for the side to move, each once.
C1_GenLegalIsExact ==
    pos.half_move_clock < 75 =>
        /\ Range(GenLegal(pos)) = RuleLegalMoves(pos.board, history, SideToMove(pos))
        /\ Cardinality(Range(GenLegal(pos))) = Len(GenLegal(pos))

\* C2: no move returned by gen_legal leaves the mover's own king attacked: after
\* apply_move the mover still has a king, is_in_check(mover) is false, and no
\* opposing piece attacks the king's square.
C2_NoSelfCheck ==
    \A mov \in Range(moves) :
        LET color == SideToMove(pos)
            after == ApplyMove(pos, mov)
        IN  /\ ~IsInCheck(after, color)
            /\ after.board[Piece(color, King)] # {}
            /\ \A k \in after.board[Piece(color, King)] :
                    ~RuleAttacked(after.board, k, Opponent(color))

\* C2: a position where the legality filter dropped a pseudo-legal move and kept
\* others
C2_Witness ==
    /\ moves # <<>>
    /\ Len(moves) < Len(GenPseudolegal(pos))

\* C3: in every reachable position no square is in two of the twelve piece
\* sets, and apply_move of any generated move keeps it so.
C3_NoSharedSquare ==
    /\ NoOverlap(pos.board)
    /\ \A mov \in Range(moves) : NoOverlap(ApplyMove(pos, mov).board)

\* C3: a position reached through an en-passant capture and an ordinary capture,
\* where a capturing promotion is among the generated moves
C3_Witness ==
    /\ \E i \in 1..Len(history) : history[i].special = "EnPassant"
    /\ \E i \in 1..Len(history) :
            history[i].special = "None" /\ FileOf(history[i].from) # FileOf(history[i].to)
                /\ history[i].ptype = Pawn
    /\ \E m \in Range(moves) :
            GetPromotion(m.special) # {} /\ Holds(pos.board, m.to, Opponent(SideToMove(pos)))

\* C4: no move returned by gen_legal has a destination square occupied by a
\* piece of the mover's own colour.
C4_NoOwnPieceTarget ==
    \A m \in Range(moves) : ~Holds(pos.board, m.to, SideToMove(pos))

\* C4: a position offering a castling move, where some own piece stands on a
\* square of a knight's pattern
C4_Witness ==
    /\ \E m \in Range(moves) : IsCastle(m)
    /\ \E from \in pos.board[Piece(SideToMove(pos), Knight)] :
            \E to \in KNIGHT_PATTERNS[from] : Holds(pos.board, to, SideToMove(pos))

\* C5: the history e2e4, e7e5, f1c4, f8c5 replays without failure from the
\* initial position, each move being found in the legal moves of its ply, and
\* afterwards a white bishop stands on c4 and a black bishop on c5.
C5_ScenarioPlays ==
    game = 1 =>
        /\ status = "ok"
        /\ Len(history) = 4 =>
                /\ SquareAt(2, 3) \in pos.board[Piece(White, Bishop)]
                /\ SquareAt(2, 4) \in pos.board[Piece(Black, Bishop)]

\* the generator emits a two-rank pawn push from the square
EmitsDoublePush(squ) ==
    \E m \in Range(GenPseudolegal(pos)) :
        /\ m.ptype = Pawn /\ m.from = squ
        /\ FileOf(m.to) = FileOf(squ)
        /\ Abs(RankOf(m.to) - RankOf(squ)) = 2

\* C6: for either colour, gen_pseudolegal emits a two-rank pawn push from s if
\* and only if a pawn of the side to move stands on s, s is in the unmoved set,
\* and the squares one and two ranks ahead are both empty.
C6_DoublePushIff ==
    \A squ \in Squares :
        LET color == SideToMove(pos)
            r1 == RankOf(squ) + RuleForward(color)
            r2 == RankOf(squ) + 2 * RuleForward(color)
        IN  EmitsDoublePush(squ) <=>
                /\ squ \in pos.board[Piece(color, Pawn)]
                /\ squ \in pos.unmoved
                /\ r2 \in 0..7
                /\ IsEmpty(pos.board, SquareAt(FileOf(squ), r1))
                /\ IsEmpty(pos.board, SquareAt(FileOf(squ), r2))

\* C7: gen_pseudolegal emits a castling move only if every square strictly
\* between the king and the castling rook is empty: b, c, d of the home rank
\* for the queenside, f, g for the kingside.
C7_CastlingPathEmpty ==
    \A m \in Range(GenPseudolegal(pos)) :
        LET rank0 == RuleHomeRank(SideToMove(pos))
        IN  /\ m.special = "CastleQ" =>
                \A file \in {1, 2, 3} : IsEmpty(pos.board, SquareAt(file, rank0))
            /\ m.special = "CastleK" =>
                \A file \in {5, 6} : IsEmpty(pos.board, SquareAt(file, rank0))

\* C8: gen_pseudolegal, and so gen_legal, never emits a castling move when the
\* king's start square, the square it crosses or its end square is attacked by
\* an opposing piece on the full board.
C8_NoCastlingThroughAttack ==
    \A m \in Range(GenPseudolegal(pos)) \cup Range(moves) :
        IsCastle(m) =>
            \A s \in {m.from, CrossedSquare(m), m.to} :
                ~RuleAttacked(pos.board, s, Opponent(SideToMove(pos)))

\* C8: king and kingside rook unmoved, f and g empty, a square of the king's
\* path attacked, and no kingside castling generated
C8_Witness ==
    LET color == SideToMove(pos)
        rank0 == RuleHomeRank(color)
    IN  /\ pos.half_move_clock < 75
        /\ {SquareAt(4, rank0), SquareAt(7, rank0)} \subseteq pos.unmoved
        /\ \A file \in {5, 6} : IsEmpty(pos.board, SquareAt(file, rank0))
        /\ \E file \in {4, 5, 6} : RuleAttacked(pos.board, SquareAt(file, rank0), Opponent(color))
        /\ \A m \in Range(GenPseudolegal(pos)) : m.special # "CastleK"

\* a castling move generated for the side to move uses a king and a rook that
\* never left their home squares
CastlingOnlyUnmoved ==
    \A m \in Range(GenPseudolegal(pos)) :
        LET rank0 == RuleHomeRank(SideToMove(pos))
        IN  /\ m.special = "CastleQ" =>
                NeverLeft(history, SquareAt(4, rank0)) /\ NeverLeft(history, SquareAt(0, rank0))
            /\ m.special = "CastleK" =>
                NeverLeft(history, SquareAt(4, rank0)) /\ NeverLeft(history, SquareAt(7, rank0))

\* C9: apply_move never adds a square to the unmoved set, and once a king or a
\* rook has moved off its home square no later position offers a castling move
\* for that king or with that rook.
C9_CastlingRightsOneWay ==
    /\ [][pos'.unmoved \subseteq pos.unmoved]_vars
    /\ []CastlingOnlyUnmoved

\* C9: the king to move is back on its home square after having left it, the
\* kingside rook never moved, f and g are empty, and no castling is generated
C9_Witness ==
    LET color == SideToMove(pos)
        rank0 == RuleHomeRank(color)
    IN  /\ SquareAt(4, rank0) \in pos.board[Piece(color, King)]
        /\ ~NeverLeft(history, SquareAt(4, rank0))
        /\ SquareAt(7, rank0) \in pos.board[Piece(color, Rook)]
        /\ Untouched(history, SquareAt(7, rank0))
        /\ \A file \in {5, 6} : IsEmpty(pos.board, SquareAt(file, rank0))
        /\ \A s \in {SquareAt(file, rank0) : file \in {4, 5, 6}} :
                ~RuleAttacked(pos.board, s, Opponent(color))
        /\ \A m \in Range(GenPseudolegal(pos)) : ~IsCastle(m)

\* king and both rooks of the side to move are in the unmoved set, the squares
\* between the king and each rook are empty, no square of the king's paths is
\* attacked
CastlingPrecondition ==
    LET color == SideToMove(pos)
        rank0 == RuleHomeRank(color)
    IN  /\ {SquareAt(4, rank0), SquareAt(0, rank0), SquareAt(7, rank0)} \subseteq pos.unmoved
        /\ \A file \in {1, 2, 3, 5, 6} : IsEmpty(pos.board, SquareAt(file, rank0))
        /\ \A file \in {2, 3, 4, 5, 6} :
                ~RuleAttacked(pos.board, SquareAt(file, rank0), Opponent(color))

BothCastlingsLegal ==
    /\ \E m \in Range(moves) : m.special = "CastleQ"
    /\ \E m \in Range(moves) : m.special = "CastleK"

\* C10 as stated: in the initial position gen_legal contains no castling move,
\* and whenever king and both rooks are unmoved, the squares between are empty
\* and the king's path is unattacked, gen_legal contains both castling moves.
C10_CastlingAvailable ==
    /\ pos = InitialPosition => \A m \in Range(moves) : ~IsCastle(m)
    /\ CastlingPrecondition => BothCastlingsLegal

\* C10 amended: the same, for positions whose half-move clock is below 75.
C10_CastlingAvailableBelowCutoff ==
    /\ pos = InitialPosition => \A m \in Range(moves) : ~IsCastle(m)
    /\ (CastlingPrecondition /\ pos.half_move_clock < 75) => BothCastlingsLegal

\* C10: Black to move with the precondition met below the cutoff
C10_Witness ==
    /\ SideToMove(pos) = Black
    /\ CastlingPrecondition
    /\ pos.half_move_clock < 75
    /\ BothCastlingsLegal

\* a pawn move of two ranks along its file from a square of the unmoved set
DoublePush(p, mov) ==
    /\ mov.ptype = Pawn
    /\ mov.from \in p.unmoved
    /\ FileOf(mov.from) = FileOf(mov.to)
    /\ Abs(RankOf(mov.to) - RankOf(mov.from)) = 2

\* C11: after apply_move of a pawn double push from an unmoved square the
\* en-passant target is exactly the square the pawn skipped over; after
\* apply_move of any other move the target is empty, so a target is cleared by
\* the very next move unless that move is a double push itself.
C11_EnPassantTargetLifetime ==
    \A mov \in Range(moves) :
        LET after == ApplyMove(pos, mov)
        IN  IF DoublePush(pos, mov)
            THEN after.en_passant_target = {mov.from + RuleForward(SideToMove(pos))}
            ELSE after.en_passant_target = {}

\* C11: the last move was a double push and set the target to the skipped
\* square; every answer of the side to move is another kind of move
C11_Witness ==
    /\ history # <<>>
    /\ LET last == history[Len(history)]
       IN  /\ last.ptype = Pawn
           /\ Abs(RankOf(last.to) - RankOf(last.from)) = 2
           /\ pos.en_passant_target = {SquareAt(FileOf(last.from), RankOf(last.from) + 1)}
    /\ moves # <<>>
    /\ \A mov \in Range(moves) : ~DoublePush(pos, mov)

\* the en-passant moves among the pseudo-legal moves of pos
EnPassantGenerated == {m \in Range(GenPseudolegal(pos)) : m.special = "EnPassant"}

\* C12: right after a pawn double push, gen_pseudolegal contains an en-passant
\* move from s to the en-passant target exactly for the squares s that hold a
\* pawn of the side to move, on the rank of the pushed pawn and on a file next
\* to it; with an empty target it contains no en-passant move.
C12_EnPassantIff ==
    IF pos.en_passant_target = {}
    THEN EnPassantGenerated = {}
    ELSE LET color == SideToMove(pos)
             pushed == history[Len(history)].to
         IN  EnPassantGenerated =
                {Move(Pawn, s, target, "EnPassant") :
                    s \in {q \in pos.board[Piece(color, Pawn)] :
                                /\ RankOf(q) = RankOf(pushed)
                                /\ Abs(FileOf(q) - FileOf(pushed)) = 1},
                    target \in pos.en_passant_target}

\* C12: a double push has just put a pawn beside a pawn of the side to move, and
\* the capture is generated from that side only
C12_Witness ==
    /\ pos.en_passant_target # {}
    /\ Cardinality(EnPassantGenerated) = 1
    /\ \E m \in Range(moves) : m.special = "EnPassant"

\* C13: a position whose side to move has no legal move is scored by negamax,
\* at every remaining depth from 1 up, as checkmate (-i16::MAX) if the side to
\* move is in check and as a draw (0) if it is not.
C13_NoLegalMoveScore ==
    moves = <<>> =>
        \A depth \in 1..MaxDepth :
            Negamax(pos, depth, -I16_MAX, I16_MAX)
                = IF IsInCheck(pos, SideToMove(pos)) THEN -I16_MAX ELSE 0

\* the first move of legal_moves, in list order, whose resulting position has
\* the greatest eval for the mover
FirstBestByEval(p, legal_moves) ==
    LET color == SideToMove(p)
        value(i) == Eval(ApplyMove(p, legal_moves[i]).board, color)
        best == CHOOSE i \in 1..Len(legal_moves) :
                    /\ \A j \in 1..Len(legal_moves) : value(j) <= value(i)
                    /\ \A j \in 1..(i - 1) : value(j) < value(i)
    IN  legal_moves[best]

\* C14: a SimpleAi of depth 1 returns, for a non-empty legal move list, the
\* first move in list order whose resulting position has the greatest
\* eval(board after the move, mover's colour).
C14_DepthOnePicksBestEval ==
    moves # <<>> => PickMove(pos, 1, moves) = {FirstBestByEval(pos, moves)}

\* ------------------------------------------------------------ FEN, as a notation
\* What a FEN text says, read off the text itself.

RuleDigits == {"0", "1", "2", "3", "4", "5", "6", "7", "8", "9"}
RulePieceLetters == {"P", "N", "B", "R", "Q", "K", "p", "n", "b", "r", "q", "k"}

\* the value of a string of decimal digits
RECURSIVE RuleNumber(_)
RuleNumber(text) ==
    IF text = <<>> THEN 0
    ELSE RuleNumber(SubSeq(text, 1, Len(text) - 1)) * 10
            + (CHOOSE d \in 0..9 : DigitChars[d + 1] = text[Len(text)])

\* a non-empty string of at most six decimal digits
RuleIsNumber(text) ==
    /\ Len(text) \in 1..6
    /\ \A i \in 1..Len(text) : text[i] \in RuleDigits

\* one rank of the placement field spelled out square by square, "." for an
\* empty square
RECURSIVE RuleExpand(_)
RuleExpand(rank_text) ==
    IF rank_text = <<>> THEN <<>>
    ELSE (IF Head(rank_text) \in RuleDigits
          THEN [i \in 1..RuleNumber(<<Head(rank_text)>>) |-> "."]
          ELSE <<Head(rank_text)>>)
         \o RuleExpand(Tail(rank_text))

\* the placement field as eight ranks of eight squares, rank 8 first
RulePlacement(board_text) ==
    LET ranks == Split(board_text, "/") IN [i \in 1..Len(ranks) |-> RuleExpand(ranks[i])]

RulePlacementWellFormed(board_text) ==
    /\ \A i \in 1..Len(board_text) :
            board_text[i] \in RulePieceLetters \cup (RuleDigits \ {"0", "9"}) \cup {"/"}
    /\ Len(RulePlacement(board_text)) = 8
    /\ \A i \in 1..8 : Len(RulePlacement(board_text)[i]) = 8

\* the letter on a square ("." if empty) according to a well-formed placement
RuleLetterAt(board_text, squ) == RulePlacement(board_text)[8 - RankOf(squ)][FileOf(squ) + 1]

\* a FEN text with six fields, each of the form the notation gives it, and a
\* full-move number that is positive and whose plies fit the 16-bit ply counter
RuleFenWellFormed(text) ==
    LET fields == Split(text, " ")
    IN  /\ Len(fields) = 6
        /\ RulePlacementWellFormed(fields[1])
        /\ fields[2] \in {<<"w">>, <<"b">>}
        /\ \/ fields[3] = <<"-">>
           \/ /\ fields[3] # <<>>
              /\ \A i \in 1..Len(fields[3]) : fields[3][i] \in {"K", "Q", "k", "q"}
        /\ \/ fields[4] = <<"-">>
           \/ /\ Len(fields[4]) = 2
              /\ fields[4][1] \in Range(FileChars)
              /\ fields[4][2] \in Range(RankChars)
        /\ RuleIsNumber(fields[5])
        /\ RuleIsNumber(fields[6])
        /\ RuleNumber(fields[6]) \in 1..32767

\* the rights a castling field names
RuleRights(castling_text) == Range(castling_text) \ {"-"}

\* text a says what text b says, with no castling right that b does not have
RuleSamePosition(a, b) ==
    LET fa == Split(a, " ")
        fb == Split(b, " ")
    IN  /\ Len(fa) = 6
        /\ RulePlacementWellFormed(fa[1])
        /\ RulePlacement(fa[1]) = RulePlacement(fb[1])
        /\ fa[2] = fb[2]
        /\ RuleRights(fa[3]) \subseteq RuleRights(fb[3])
        /\ fa[4] = fb[4]
        /\ RuleIsNumber(fa[5]) /\ RuleNumber(fa[5]) = RuleNumber(fb[5])
        /\ RuleIsNumber(fa[6]) /\ RuleNumber(fa[6]) = RuleNumber(fb[6])

\* C15: for every well-formed FEN text s that from_fen accepts,
\* to_fen(from_fen(s)) says the same position as s: same placement, side to
\* move, en-passant target, half-move clock and full-move number, and castling
\* rights among those of s.
C15_FenRoundTrip ==
    (RuleFenWellFormed(fen) /\ fen_pos.kind = "Some" /\ fen_out # FenPending) =>
        /\ fen_out.kind = "Text"
        /\ RuleSamePosition(fen_out.text, fen)

\* C15: a well-formed text that is not written the way to_fen writes (blanks
\* split in two, rights out of order) came back as a different text
C15_Witness ==
    /\ RuleFenWellFormed(fen)
    /\ fen_out.kind = "Text"
    /\ fen_out.text # fen
    /\ RuleRights(Split(fen, " ")[3]) # {}
    /\ RuleSamePosition(fen_out.text, fen)

\* C16: for every position p reached from FEN_INITIAL by legal play,
\* from_fen(to_fen(p)) succeeds and gives a position with the same to_fen text
\* and the same gen_legal move list as p.
C16_PositionRoundTrip ==
    \A checks \in BOOLEAN :
        LET text == ToFen(pos, checks)
            back == FromFen(text.text, checks)
        IN  /\ text.kind = "Text"
            /\ back.kind = "Some"
            /\ ToFen(back.pos, checks) = text
            /\ GenLegal(back.pos) = moves

\* the text has six fields, and its full-move number is not a positive number
\* whose plies fit the 16-bit ply counter
RuleBadMoveNumber(text) ==
    LET fields == Split(text, " ")
    IN  /\ Len(fields) = 6
        /\ ~(RuleIsNumber(fields[6]) /\ RuleNumber(fields[6]) \in 1..32767)

\* C17: for every malformed FEN text from_fen returns no value and does not
\* fail fatally; in particular a full-move number that is 0, or too large for
\* its plies to fit 16 bits, gives no value and not a position with a wrapped
\* ply counter.
C17_MalformedFenGivesNone ==
    fen_pos # FenPending =>
        /\ ~RuleFenWellFormed(fen) => fen_pos.kind = "None"
        /\ RuleBadMoveNumber(fen) => fen_pos.kind = "None"

\* the king and rook home squares a castling right names
RuleRightSquares(right) ==
    CASE right = "K" -> {SquareAt(4, 0), SquareAt(7, 0)}
      [] right = "Q" -> {SquareAt(4, 0), SquareAt(0, 0)}
      [] right = "k" -> {SquareAt(4, 7), SquareAt(7, 7)}
      [] right = "q" -> {SquareAt(4, 7), SquareAt(0, 7)}
      [] OTHER -> {}

\* by the placement field, the king and the rook of the right stand on their
\* home squares
RuleRightBacked(board_text, right) ==
    LET king == IF right \in {"K", "Q"} THEN "K" ELSE "k"
        rook == IF right \in {"K", "Q"} THEN "R" ELSE "r"
    IN  \A squ \in RuleRightSquares(right) :
            RuleLetterAt(board_text, squ) = (IF FileOf(squ) = 4 THEN king ELSE rook)

\* the castling field holds a character outside KQkq, or names a right whose
\* king or rook is not on its home square
RuleBadCastling(text) ==
    LET fields == Split(text, " ")
    IN  /\ Len(fields) >= 3
        /\ fields[3] # <<"-">>
        /\ \E i \in 1..Len(fields[3]) :
                \/ fields[3][i] \notin {"K", "Q", "k", "q"}
                \/ /\ RulePlacementWellFormed(fields[1])
                   /\ ~RuleRightBacked(fields[1], fields[3][i])

RuleHomeSquares == {SquareAt(file, rank) : file \in {0, 4, 7}, rank \in {0, 7}}

\* C18: from_fen returns no value for a text whose castling field holds a
\* character outside KQkq or names a right whose king or rook is not on its
\* home square; when it accepts, the king and rook squares in the unmoved set
\* are exactly those of the rights the castling field names.
C18_CastlingFieldValidated ==
    fen_pos # FenPending =>
        /\ RuleBadCastling(fen) => fen_pos.kind = "None"
        /\ fen_pos.kind = "Some" =>
                fen_pos.pos.unmoved \cap RuleHomeSquares
                    = UNION {RuleRightSquares(right) : right \in RuleRights(Split(fen, " ")[3])}

\* C18: a text that is well-formed but for a right whose rook is not on its
\* corner was refused
C18_Witness ==
    /\ fen_pos.kind = "None"
    /\ RuleFenWellFormed(fen)
    /\ RuleBadCastling(fen)
    /\ RuleRights(Split(fen, " ")[3]) = {"K", "q"}

\* the workers that are inside the strategy's pick_move
Picking == {w \in 1..MaxSubmit : worker[w] = "running"}

\* C19: at most one invocation of the wrapped strategy's pick_move is executing
\* at any instant, however the workers interleave and however many times
\* pick_move_async was called before earlier workers finished.
C19_OnePickMoveAtATime == Cardinality(Picking) <= 1

\* C19: one worker is inside pick_move while two others, submitted before it
\* finished, wait for the lock
C19_Witness ==
    /\ Cardinality(Picking) = 1
    /\ Cardinality({w \in 1..MaxSubmit : worker[w] = "waiting"}) >= 2

\* C20: a call of try_get_result that returns a move leaves is_thinking() false
\* and no handle stored; no worker's move is returned twice; and a call made
\* with no handle stored is a panic of the caller, not a move and not None.
C20_TakeOnce ==
    /\ [][(TryGetResult /\ answer'.kind = "Some") => (~IsThinking)']_vars
    /\ [][(TryGetResult /\ ~IsThinking) =>
            (caller' = "panicked" /\ answer'.kind = "Panic" /\ taken' = taken)]_vars
    /\ [](\A i, j \in 1..Len(taken) : taken[i] = taken[j] => i = j)

\* C20: a move was returned, and the next call of try_get_result, made without
\* a new submission, panicked
C20_Witness ==
    /\ taken # <<>>
    /\ answer.kind = "Panic"
    /\ caller = "panicked"
    /\ worker[taken[Len(taken)]] = "finished"
    /\ \A w \in 1..MaxSubmit : w > taken[Len(taken)] => worker[w] = "unborn"

\* C21: a call of pick_move_async made while is_thinking() is true starts no
\* computation and leaves the stored handle, and the move it will give, alone.
C21_BusySubmitRefused ==
    [][(PickMoveAsync /\ IsThinking) => (worker' = worker /\ thinker' = thinker)]_vars

\* C22: try_get_result called while the submitted worker has not finished
\* returns None at once and leaves is_thinking() true; the move it returns is
\* the strategy's answer for the position as cloned at submission; and once the
\* strategy's pick_move has returned for the stored handle, a later
\* try_get_result returns that worker's move (unless the owner submits again).
C22_TryGetResult ==
    /\ [][(TryGetResult /\ IsThinking /\ worker[thinker] \in {"waiting", "running", "returned"}) =>
            (answer'.kind = "None" /\ IsThinking' /\ thinker' = thinker /\ caller' = "ok")]_vars
    /\ [](caller = "ok" => ENABLED TryGetResult)
    /\ [][PickMoveAsync => input'[thinker'] = owner_pos]_vars
    /\ [][\A w \in 1..MaxSubmit : worker[w] # "unborn" => input'[w] = input[w]]_vars
    /\ [][(TryGetResult /\ answer'.kind = "Some") =>
            answer'.move = StrategyAnswer(thinker, input[thinker])]_vars
    /\ \A w \in 1..MaxSubmit :
            (thinker = w /\ worker[w] = "returned")
                ~> ((\E i \in 1..Len(taken) : taken[i] = w) \/ thinker > w)

\* C22: a move was returned for a position the owner has since moved on from
C22_Witness ==
    /\ answer.kind = "Some"
    /\ taken = <<answer.move.by>>
    /\ answer.move.for < owner_pos
    /\ thinker = 0

\* UCI long algebraic text: the two squares, then for a promotion the
\* lowercase letter of the piece promoted to
RuleUciLetter(ptype) == <<"", "n", "b", "r", "q", "k">>[ptype + 1]

RuleUciText(mov) ==
    FileChars[FileOf(mov.from) + 1] \o RankChars[RankOf(mov.from) + 1]
        \o FileChars[FileOf(mov.to) + 1] \o RankChars[RankOf(mov.to) + 1]
        \o (IF mov.special \in {"PromoteN", "PromoteB", "PromoteR", "PromoteQ"}
            THEN RuleUciLetter(CHOOSE t \in GetPromotion(mov.special) : TRUE)
            ELSE "")

\* C23: uci_notation of a move is its origin square, its destination square
\* and, exactly when the move is a promotion, the lowercase letter n, b, r or q
\* of the piece promoted to.
C23_UciNotation ==
    \A mov \in Range(moves) : UciNotation(mov) = RuleUciText(mov)

\* C24: gen_legal gives no move for a position whose half-move clock is 75 or
\* more, whatever the board; so the clock of a position reached by generated
\* moves never exceeds 75.
C24_SeventyFiveMoves ==
    /\ pos.half_move_clock >= 75 => moves = <<>>
    /\ \A clock \in {75, 76, 255} : GenLegal([pos EXCEPT !.half_move_clock = clock]) = <<>>
    /\ pos.half_move_clock <= 75

\* C24: the clock has reached 75 by a move that was generated at 74
C24_Witness ==
    /\ pos.half_move_clock = 75
    /\ history # <<>>
    /\ moves = <<>>
    /\ GenLegal([pos EXCEPT !.half_move_clock = 74]) # <<>>

\* the opening moves of chess, each as <<piece type, origin, destination>>
RuleOpeningMoves ==
    {<<Pawn, SquareAt(file, 1), SquareAt(file, 2)>> : file \in 0..7}
        \cup {<<Pawn, SquareAt(file, 1), SquareAt(file, 3)>> : file \in 0..7}
        \cup {<<Knight, SquareAt(1, 0), SquareAt(0, 2)>>, <<Knight, SquareAt(1, 0), SquareAt(2, 2)>>,
              <<Knight, SquareAt(6, 0), SquareAt(5, 2)>>, <<Knight, SquareAt(6, 0), SquareAt(7, 2)>>}

\* C25: on the position parsed from FEN_INITIAL gen_legal gives exactly 20
\* moves: the 16 single and double pushes of the pawns and the 4 knight moves.
C25_TwentyOpeningMoves ==
    history = <<>> =>
        /\ FromFen(FEN_INITIAL, overflow_checks) = FenSome(pos)
        /\ Len(moves) = 20
        /\ {<<mov.ptype, mov.from, mov.to>> : mov \in Range(moves)} = RuleOpeningMoves
        /\ \A mov \in Range(moves) : mov.special = "None"
        /\ Cardinality({mov \in Range(moves) : mov.ptype = Pawn}) = 16
        /\ Cardinality({mov \in Range(moves) : mov.ptype = Knight}) = 4

\* C25: the game stands at the initial position with its moves generated
C25_Witness ==
    /\ history = <<>>
    /\ pos = InitialPosition
    /\ moves = GenLegal(pos)
    /\ moves # <<>>

\* the score pick_move gives to the i-th move of the list
RootScore(i) == -Negamax(ApplyMove(pos, moves[i]), ai_depth - 1, -I16_MAX, I16_MAX)

\* C26: pick_move of a SimpleAi of depth 1 or more, given a non-empty list,
\* returns a move of that list (it never ends without one, however bad every
\* move is) and leaves the position as it was.
C26_PickMoveReturnsListed ==
    /\ [](status # "panicked")
    /\ [][Think => /\ best_move'.kind = "Some"
                   /\ best_move'.move \in Range(moves)
                   /\ pos' = pos
                   /\ moves' = moves]_vars

\* C26: a move was returned although every move of the list has a score
\* below 0
C26_Witness ==
    /\ best_move # NoMove
    /\ best_move.move \in Range(moves)
    /\ ai_depth >= 2
    /\ \A i \in 1..Len(moves) : RootScore(i) < 0

\* C27: every move gen_pseudolegal gives on a position accepted by from_fen
\* passes all the consistency checks of apply_move.
C27_GeneratedMovesPassChecks ==
    fen_pos.kind = "Some" =>
        \A mov \in Range(GenPseudolegal(fen_pos.pos)) : ApplyMoveChecks(fen_pos.pos, mov)

\* whether the position has exactly one king of each colour
HasBothKings(p) ==
    /\ Cardinality(FindPiece(p.board, Piece(White, King))) = 1
    /\ Cardinality(FindPiece(p.board, Piece(Black, King))) = 1

\* negamax with its loop, as above, giving besides the score whether a
\* position without both kings was among those it was called on
RECURSIVE NegamaxKings(_, _, _, _), NegamaxKingsLoop(_, _, _, _, _, _, _)
NegamaxKings(p, depth, min, max) ==
    LET color == SideToMove(p)
        pseudo == GenPseudolegal(p)
    IN  IF depth = 0
        THEN [score |-> Eval(p.board, color), lost |-> ~HasBothKings(p)]
        ELSE IF Len(pseudo) = 0
        THEN [score |-> IF IsInCheck(p, color) THEN -I16_MAX ELSE 0, lost |-> ~HasBothKings(p)]
        ELSE NegamaxKingsLoop(p, depth, pseudo, 1, min, max, ~HasBothKings(p))

NegamaxKingsLoop(p, depth, pseudo, i, cur_max, max, lost) ==
    IF i > Len(pseudo)
    THEN [score |-> cur_max, lost |-> lost]
    ELSE LET below == NegamaxKings(ApplyMove(p, pseudo[i]), depth - 1, -max, -cur_max)
             score == -below.score
             lost2 == lost \/ below.lost
         IN  IF score > cur_max
             THEN IF score >= max THEN [score |-> max, lost |-> lost2]
                  ELSE NegamaxKingsLoop(p, depth, pseudo, i + 1, score, max, lost2)
             ELSE NegamaxKingsLoop(p, depth, pseudo, i + 1, cur_max, max, lost2)

\* the moves of the list under which pick_move's search visits a position
\* without both kings
KingLosingLines(p, depth, legal_moves) ==
    {i \in 1..Len(legal_moves) :
        NegamaxKings(ApplyMove(p, legal_moves[i]), depth - 1, -I16_MAX, I16_MAX).lost}

\* C28: while pick_move searches from a position of the game and its legal
\* moves, every position negamax is called on has exactly one king of each
\* colour: no line of the search captures a king.
C28_NoKingCapturedInSearch ==
    best_move # NoMove => KingLosingLines(pos, ai_depth, moves) = {}

\* the greatest of a non-empty set of integers
RuleGreatest(values) == CHOOSE v \in values : \A w \in values : w <= v

\* negamax without a window: the value of a position searched `depth` plies
\* deep over gen_pseudolegal, with negamax's leaf and no-move values
RECURSIVE RulePlainNegamax(_, _)
RulePlainNegamax(p, depth) ==
    LET color == SideToMove(p)
        pseudo == GenPseudolegal(p)
    IN  IF depth = 0
        THEN Eval(p.board, color)
        ELSE IF pseudo = <<>>
        THEN IF IsInCheck(p, color) THEN -I16_MAX ELSE 0
        ELSE RuleGreatest({-RulePlainNegamax(ApplyMove(p, pseudo[i]), depth - 1) :
                                i \in 1..Len(pseudo)})

\* the value of the i-th move of the list for the mover, without a window
RulePlainScore(i) == -RulePlainNegamax(ApplyMove(pos, moves[i]), ai_depth - 1)

\* C29: pick_move returns the first move of the list whose value under plain
\* negamax (no window, depth - 1 plies over gen_pseudolegal, same leaf and
\* no-move values) is greatest, and the score its search gives to every move of
\* the list is that plain value.
C29_AlphaBetaIsExact ==
    best_move # NoMove =>
        /\ \A i \in 1..Len(moves) : RootScore(i) = RulePlainScore(i)
        /\ \E i \in 1..Len(moves) :
            /\ best_move.move = moves[i]
            /\ \A j \in 1..Len(moves) : RulePlainScore(j) <= RulePlainScore(i)
            /\ \A j \in 1..(i - 1) : RulePlainScore(j) < RulePlainScore(i)

\* C29: a search of depth 3 in which a window cut a node short: the reply to
\* some move of the list has a second answer whose search, in the window left
\* by the first, gave a bound and not the answer's plain value
C29_Witness ==
    /\ best_move # NoMove
    /\ ai_depth = 3
    /\ \E i \in 1..Len(moves) :
        LET reply == ApplyMove(pos, moves[i])
            pseudo == GenPseudolegal(reply)
        IN  /\ Len(pseudo) >= 2
            /\ LET first == -Negamax(ApplyMove(reply, pseudo[1]), 1, -I16_MAX, I16_MAX)
               IN  /\ first > -I16_MAX
                   /\ -Negamax(ApplyMove(reply, pseudo[2]), 1, -I16_MAX, -first)
                        # -RulePlainNegamax(ApplyMove(reply, pseudo[2]), 1)

\* C30: eval is antisymmetric in the colour: on every board the score from
\* White's side is the negation of the score from Black's side.
C30_EvalAntisymmetric ==
    Eval(pos.board, White) = -Eval(pos.board, Black)

\* whether a side is in the endgame: it has no queen, or at most one knight
\* or bishop and neither pawn nor rook
RuleEndgame(board, color) ==
    \/ board[Piece(color, Queen)] = {}
    \/ /\ Cardinality(board[Piece(color, Knight)] \cup board[Piece(color, Bishop)]) <= 1
       /\ board[Piece(color, Pawn)] \cup board[Piece(color, Rook)] = {}

\* C31: eval(board, color) scores each side's king with the table chosen by
\* that side's own endgame status: the result is the score of `color` under its
\* own status minus the score of the opponent under the opponent's status.
C31_KingTablePerSide ==
    \A color \in {White, Black} :
        Eval(pos.board, color)
            = EvalSide(pos.board, color, RuleEndgame(pos.board, color))
                - EvalSide(pos.board, Opponent(color), RuleEndgame(pos.board, Opponent(color)))

\* the counters of the position after a move, as the rule has them: the
\* clock restarts on a pawn move or a capture (en passant included), else it
\* goes up by one, and the ply goes up by one
RuleCountersAfter(before, mov, after) ==
    LET capture ==
            \/ mov.special = "EnPassant"
            \/ \E piece \in PieceOrdinals :
                    piece \notin {Piece(SideToMove(before), ptype) : ptype \in Pawn..King}
                        /\ mov.to \in before.board[piece]
    IN  /\ after.half_move_clock =
                IF mov.ptype = Pawn \/ capture THEN 0 ELSE before.half_move_clock + 1
        /\ after.ply_number = before.ply_number + 1
        /\ SideToMove(after) # SideToMove(before)

\* C32: apply_move sets the half-move clock to 0 on a pawn move or a capture
\* and otherwise adds one to it, and adds one to the ply counter, so that the
\* side to move changes with every move.
C32_CountersAfterMove ==
    fen_moved.kind = "Some" => RuleCountersAfter(fen_pos.pos, fen_moved.mov, fen_moved.pos)

\* the pieces a board holds on one square
RulePiecesOn(board, squ) == {piece \in PieceOrdinals : squ \in board[piece]}

\* the effect of an en passant capture on the board, as the rule has it
RuleEnPassantEffect(before, mov, after) ==
    LET color == SideToMove(before)
        capturedSqu == SquareAt(FileOf(mov.to), RankOf(mov.from))
    IN  /\ RulePiecesOn(before.board, capturedSqu) = {Piece(Opponent(color), Pawn)}
        /\ RulePiecesOn(after.board, capturedSqu) = {}
        /\ RulePiecesOn(before.board, mov.from) = {Piece(color, Pawn)}
        /\ RulePiecesOn(after.board, mov.from) = {}
        /\ before.en_passant_target = {mov.to}
        /\ RulePiecesOn(after.board, mov.to) = {Piece(color, Pawn)}
        /\ \A squ \in (0..63) \ {capturedSqu, mov.from, mov.to} :
                RulePiecesOn(after.board, squ) = RulePiecesOn(before.board, squ)

\* C33: applying a generated en passant move removes exactly the enemy pawn
\* on the destination's file and the origin's rank, moves the capturing pawn
\* from its origin to the en passant target and leaves every other square of
\* the board unchanged.
C33_EnPassantEffect ==
    (fen_moved.kind = "Some" /\ fen_moved.mov.special = "EnPassant")
        => RuleEnPassantEffect(fen_pos.pos, fen_moved.mov, fen_moved.pos)

\* the effect of a castling on the board and on the unmoved set, as the rule
\* has it
RuleCastlingEffect(before, mov, after) ==
    LET color == SideToMove(before)
        rank == RankOf(mov.from)
        toward == IF mov.special = "CastleK" THEN 1 ELSE -1
        corner == SquareAt(IF mov.special = "CastleK" THEN 7 ELSE 0, rank)
        crossed == SquareAt(FileOf(mov.from) + toward, rank)
    IN  /\ mov.to = SquareAt(FileOf(mov.from) + 2 * toward, rank)
        /\ RulePiecesOn(before.board, mov.from) = {Piece(color, King)}
        /\ RulePiecesOn(after.board, mov.from) = {}
        /\ RulePiecesOn(after.board, mov.to) = {Piece(color, King)}
        /\ RulePiecesOn(before.board, corner) = {Piece(color, Rook)}
        /\ RulePiecesOn(after.board, corner) = {}
        /\ RulePiecesOn(after.board, crossed) = {Piece(color, Rook)}
        /\ {mov.from, corner} \subseteq before.unmoved
        /\ after.unmoved = before.unmoved \ {mov.from, corner}
        /\ \A piece \in PieceOrdinals :
                Cardinality(after.board[piece]) = Cardinality(before.board[piece])
        /\ \A squ \in (0..63) \ {mov.from, mov.to, corner, crossed} :
                RulePiecesOn(after.board, squ) = RulePiecesOn(before.board, squ)

\* C34: applying a generated castling move moves the king two files toward
\* the rook, moves that rook from its corner to the square the king crossed,
\* removes the king's and the rook's home squares from the unmoved set,
\* removes no piece from the board and leaves every other square unchanged.
C34_CastlingEffect ==
    (fen_moved.kind = "Some" /\ fen_moved.mov.special \in {"CastleQ", "CastleK"})
        => RuleCastlingEffect(fen_pos.pos, fen_moved.mov, fen_moved.pos)

\* a queen-side castling has been applied to a position with all four rights
C34_Witness ==
    /\ fen_moved.kind = "Some"
    /\ fen_moved.mov.special = "CastleQ"
    /\ Cardinality(fen_pos.pos.unmoved) = 6
    /\ Cardinality(fen_moved.pos.unmoved) = 4

\* the pawn pushes and captures of a move list (en passant captures carry
\* their own tag and are listed apart): each step to the far rank is there as
\* exactly the four promotions, each other step exactly once with tag none
RulePawnSteps(color, list) ==
    LET steps == {i \in 1..Len(list) :
                        list[i].ptype = Pawn /\ list[i].special # "EnPassant"}
        same(i) == {j \in steps : list[j].from = list[i].from /\ list[j].to = list[i].to}
    IN  \A i \in steps :
            IF RankOf(list[i].to) = RelRank(color, 7)
            THEN /\ Cardinality(same(i)) = 4
                 /\ {list[j].special : j \in same(i)}
                        = {"PromoteN", "PromoteB", "PromoteR", "PromoteQ"}
            ELSE /\ Cardinality(same(i)) = 1
                 /\ list[i].special = "None"

\* the destination of a promotion after the move, as the rule has it
RulePromoted(before, mov, after) ==
    \E ptype \in GetPromotion(mov.special) :
        RulePiecesOn(after.board, mov.to) = {Piece(SideToMove(before), ptype)}

\* C35: in the list of gen_pseudolegal every pawn push or capture to the
\* mover's far rank is there as exactly four moves, one per promotion piece,
\* and never with tag none; every other pawn push or capture is there exactly
\* once with tag none; and after a promotion is applied the destination holds
\* a piece of the chosen type and the mover's colour, and no pawn.
C35_PromotionExpansion ==
    fen_moved.kind = "Some" =>
        /\ RulePawnSteps(SideToMove(fen_pos.pos), GenPseudolegal(fen_pos.pos))
        /\ GetPromotion(fen_moved.mov.special) # {}
                => RulePromoted(fen_pos.pos, fen_moved.mov, fen_moved.pos)

\* a pawn has captured a knight on the far rank and become a rook
C35_Witness ==
    /\ fen_moved.kind = "Some"
    /\ fen_moved.mov.special = "PromoteR"
    /\ fen_moved.mov.to \in fen_pos.pos.board[Piece(Black, Knight)]
    /\ fen_moved.mov.to \in fen_moved.pos.board[Piece(White, Rook)]

\* the squares met walking from a square in one direction, up to and
\* including the first occupied square, or to the edge of the board
RECURSIVE RuleWalk(_, _, _, _)
RuleWalk(squ, dfile, drank, pieces) ==
    LET file == FileOf(squ) + dfile
        rank == RankOf(squ) + drank
    IN  IF file \notin 0..7 \/ rank \notin 0..7 THEN {}
        ELSE IF SquareAt(file, rank) \in pieces THEN {SquareAt(file, rank)}
        ELSE {SquareAt(file, rank)} \cup RuleWalk(SquareAt(file, rank), dfile, drank, pieces)

\* the two directions of each line, in the order of CastPatterns: along the
\* rank, along the file, along the diagonal and along the antidiagonal
RuleDirections == <<<<1, 0>>, <<0, 1>>, <<1, 1>>, <<1, -1>>>>

\* the walk from a square both ways along one of its four lines
RuleWalkLine(from, i, pieces) ==
    RuleWalk(from, RuleDirections[i][1], RuleDirections[i][2], pieces)
        \cup RuleWalk(from, -RuleDirections[i][1], -RuleDirections[i][2], pieces)

\* C36: for every origin, each of the four lines through it and every
\* occupancy, cast_ray without the origin is the set of squares met walking
\* from the origin both ways along the line up to and including the first
\* occupied square, or to the edge of the board, whatever stands on the origin;
\* cast_cardinals and cast_diagonals return the unions of two such walks.
C36_CastRayIsWalk ==
    cast_res # CastPending =>
        /\ \A i \in 1..4 :
                CastRay(cast_from, CastPatterns(cast_from)[i], cast_pieces) \ {cast_from}
                    = RuleWalkLine(cast_from, i, cast_pieces)
        /\ cast_res.fn = "cast_cardinals" =>
                cast_res.bb \ {cast_from}
                    = RuleWalkLine(cast_from, 1, cast_pieces)
                        \cup RuleWalkLine(cast_from, 2, cast_pieces)
        /\ cast_res.fn = "cast_diagonals" =>
                cast_res.bb \ {cast_from}
                    = RuleWalkLine(cast_from, 3, cast_pieces)
                        \cup RuleWalkLine(cast_from, 4, cast_pieces)

\* a diagonal ray was cast from an occupied d4 with a piece on f6 and one on
\* b2: it stops on both and does not reach g7 or a1
C36_Witness ==
    /\ cast_res # CastPending
    /\ cast_res.fn = "cast_diagonals"
    /\ cast_from = 27
    /\ cast_pieces = {9, 27, 45}
    /\ {9, 45} \subseteq cast_res.bb
    /\ cast_res.bb \cap {0, 54} = {}

\* C37: in every position reached from FEN_INITIAL by moves that gen_legal
\* returned each colour has exactly one king, and no move that gen_legal
\* returns for it lands on a king.
C37_OneKingEach ==
    /\ HasBothKings(pos)
    /\ \A i \in 1..Len(moves) :
            moves[i].to \notin FindPiece(pos.board, Piece(Opponent(SideToMove(pos)), King))

\* pieces have been captured and the side to move is in check, with a legal
\* answer left
C37_Witness ==
    /\ history # <<>>
    /\ Cardinality(AllPieces(pos.board)) < 32
    /\ IsInCheck(pos, SideToMove(pos))
    /\ moves # <<>>
    /\ HasBothKings(pos)

\* whether every unmoved square of a position holds its original piece, as
\* the rule has it
RuleUnmovedIntact(p) ==
    \A squ \in p.unmoved :
        /\ \A color \in {White, Black} :
                squ \in FindPiece(p.board, Piece(color, King))
                    => squ = SquareAt(4, RelRank(color, 0))
        /\ \A color \in {White, Black} :
                (FileOf(squ) \in {0, 7} /\ RankOf(squ) = RelRank(color, 0))
                    => RulePiecesOn(p.board, squ) = {Piece(color, Rook)}
        /\ \A color \in {White, Black} :
                RankOf(squ) = RelRank(color, 1)
                    => RulePiecesOn(p.board, squ) = {Piece(color, Pawn)}

\* C38: in every position that from_fen accepts and every position reached
\* from one by a generated move, each unmoved square holds its original
\* piece: a king on an unmoved square is on the e-file of its home rank, an
\* unmoved corner holds a rook of that home rank's colour, an unmoved square
\* on rank 2 (rank 7) holds a white (black) pawn.
C38_UnmovedIntact ==
    /\ fen_pos.kind = "Some" => RuleUnmovedIntact(fen_pos.pos)
    /\ fen_moved.kind = "Some" => RuleUnmovedIntact(fen_moved.pos)

\* C39: in the gen_legal list of every position reached from FEN_INITIAL by
\* legal play no two moves share origin, destination and promotion piece, and
\* the uci_notation texts of the list are pairwise distinct.
C39_MovesDistinct ==
    \A i, j \in 1..Len(moves) :
        i # j =>
            /\ <<moves[i].from, moves[i].to, GetPromotion(moves[i].special)>>
                    # <<moves[j].from, moves[j].to, GetPromotion(moves[j].special)>>
            /\ UciNotation(moves[i]) # UciNotation(moves[j])

\* the list holds the four promotions of one pawn step, which differ in the
\* promotion piece only, after moves have been played
C39_Witness ==
    /\ history # <<>>
    /\ \E i, j \in 1..Len(moves) :
            /\ moves[i].special = "PromoteN"
            /\ moves[j].special = "PromoteQ"
            /\ moves[i].from = moves[j].from
            /\ moves[i].to = moves[j].to

\* what a game has left to spend: every piece can be captured once, every
\* pawn can step forward until the far rank, and between two such moves the
\* clock allows 75 moves
RuleStepsLeft(board) ==
    LET left(color) ==
            LET pawns == FindPiece(board, Piece(color, Pawn))
            IN  IF pawns = {} THEN 0
                ELSE LET ranks == [squ \in pawns |-> 7 - RelRank(color, RankOf(squ))]
                         RECURSIVE sum(_)
                         sum(set) == IF set = {} THEN 0
                                     ELSE LET squ == CHOOSE x \in set : TRUE
                                          IN  ranks[squ] + sum(set \ {squ})
                     IN  sum(pawns)
    IN  Cardinality(AllPieces(board)) + left(White) + left(Black)

RuleGameLeft(p) == 76 * RuleStepsLeft(p.board) + (75 - p.half_move_clock)

\* C40: every game played from FEN_INITIAL with moves of gen_legal ends on a
\* position with no legal move, and the ply counter stays within 16 bits: each
\* move applied takes the game strictly closer to its end (a capture or pawn
\* move uses up material or pawn steps, any other move uses up the clock),
\* what is left is never negative, and the plies made plus what is left never
\* exceed what the initial position had, 9803.
C40_GamesTerminate ==
    [][history' # history =>
            /\ RuleGameLeft(pos') < RuleGameLeft(pos)
            /\ RuleGameLeft(pos') >= 0
            /\ pos'.ply_number = pos.ply_number + 1
            /\ pos'.ply_number - 1 + RuleGameLeft(pos') <= RuleGameLeft(InitialPosition)
            /\ RuleGameLeft(InitialPosition) + 1 < 65536]_vars

\* a game has ended by checkmate, another move list is empty
C40_Witness ==
    /\ history # <<>>
    /\ moves = <<>>
    /\ status = "ok"
    /\ pos.half_move_clock < 75
    /\ IsInCheck(pos, SideToMove(pos))
    /\ pos.ply_number = Len(history) + 1

====
